---------------------------- MODULE Spec2Model ----------------------------
(***************************************************************************)
(* A model of the bit-parallel sequence-to-graph aligner of                *)
(* src/GraphAligner.h: the 64-bit word primitives, the slice merge, the    *)
(* node column calculator, the cycle-cut driver, the column sweep and the  *)
(* alignment drivers.                                                      *)
(*                                                                         *)
(* A machine word (Word = uint64_t) is the set of the positions of its     *)
(* one-bits, bit 0 being the least significant; every arithmetic operator  *)
(* is computed modulo 2^WordSize.                                          *)
(***************************************************************************)
EXTENDS Integers, Sequences, FiniteSets, TLC

(***************************************************************************)
(* WordConfiguration<uint64_t>                                             *)
(***************************************************************************)
WordSize == 64
ChunkBits == 8
ScoreMax == 2147483647

Bits == 0 .. (WordSize - 1)
AllZeros == {}
AllOnes == Bits
SignMask == {i \in Bits : i % ChunkBits = ChunkBits - 1}
PrefixSumMultiplierConstant == {i \in Bits : i % ChunkBits = 0}
LSBMask == {i \in Bits : i % ChunkBits = 0}

\* the first operand, whichever is smaller
leftOperand(a, b) == a

Min(a, b) == IF a <= b THEN a ELSE b

(***************************************************************************)
(* The operators of C++ on uint64_t.                                       *)
(***************************************************************************)
And(a, b) == {i \in Bits : i \in a /\ i \in b}
Or(a, b) == {i \in Bits : i \in a \/ i \in b}
Not(a) == {i \in Bits : i \notin a}
Xor(a, b) == {i \in Bits : (i \in a) # (i \in b)}
Shl(a, n) == {i \in Bits : i - n \in a}
Shr(a, n) == {i \in Bits : i + n \in a}
One == {0}
LastBitMask == Shl(One, WordSize - 1)

Pow2 == <<1, 2, 4, 8, 16, 32, 64, 128, 256>>

\* byte k of a word, as a number
ByteOf(a, k) ==
  LET o == ChunkBits * k
  IN (IF o \in a THEN 1 ELSE 0) + (IF o + 1 \in a THEN 2 ELSE 0)
     + (IF o + 2 \in a THEN 4 ELSE 0) + (IF o + 3 \in a THEN 8 ELSE 0)
     + (IF o + 4 \in a THEN 16 ELSE 0) + (IF o + 5 \in a THEN 32 ELSE 0)
     + (IF o + 6 \in a THEN 64 ELSE 0) + (IF o + 7 \in a THEN 128 ELSE 0)

\* the word whose bytes are the low 8 bits of the numbers in bytes (index 1 first)
FromBytes(bytes) ==
  {i \in Bits : (bytes[(i \div ChunkBits) + 1] \div Pow2[(i % ChunkBits) + 1]) % 2 = 1}

\* conversion of a non-negative int below 2^16 to uint64_t
ToWord(n) == FromBytes(<<n % 256, (n \div 256) % 256, 0, 0, 0, 0, 0, 0>>)

\* the bytes of a word from byte k on, byte 0 first (at index 1)
RECURSIVE BytesFrom(_, _)
BytesFrom(a, k) ==
  IF k = WordSize \div ChunkBits THEN <<>> ELSE <<ByteOf(a, k)>> \o BytesFrom(a, k + 1)

Bytes(a) == BytesFrom(a, 0)

\* byte-wise addition with carry; st holds the operands' bytes, the byte
\* index, the carry and the bytes of the sum so far
RECURSIVE AddCarry(_)
AddCarry(st) ==
  IF st.k = WordSize \div ChunkBits THEN FromBytes(st.bytes)
  ELSE AddCarry([a |-> st.a, b |-> st.b, k |-> st.k + 1,
                 carry |-> (st.a[st.k + 1] + st.b[st.k + 1] + st.carry) \div 256,
                 bytes |-> Append(st.bytes,
                                  (st.a[st.k + 1] + st.b[st.k + 1] + st.carry) % 256)])

\* a + b and a - b modulo 2^WordSize (a - b is a + ~b + 1)
Add(a, b) ==
  IF a = AllZeros THEN b
  ELSE IF b = AllZeros THEN a
  ELSE AddCarry([a |-> Bytes(a), b |-> Bytes(b), k |-> 0, carry |-> 0, bytes |-> <<>>])
Sub(a, b) ==
  IF a = b THEN AllZeros
  ELSE IF b = AllZeros THEN a
  ELSE AddCarry([a |-> Bytes(a), b |-> Bytes(Not(b)), k |-> 0, carry |-> 1, bytes |-> <<>>])

\* the sum of the byte products that land in byte k of a product
MulColumn(a, b, k) ==
  a[1] * b[k + 1]
  + (IF k >= 1 THEN a[2] * b[k] ELSE 0) + (IF k >= 2 THEN a[3] * b[k - 1] ELSE 0)
  + (IF k >= 3 THEN a[4] * b[k - 2] ELSE 0) + (IF k >= 4 THEN a[5] * b[k - 3] ELSE 0)
  + (IF k >= 5 THEN a[6] * b[k - 4] ELSE 0) + (IF k >= 6 THEN a[7] * b[k - 5] ELSE 0)
  + (IF k >= 7 THEN a[8] * b[k - 6] ELSE 0)

RECURSIVE MulCarry(_)
MulCarry(st) ==
  IF st.k = WordSize \div ChunkBits THEN FromBytes(st.bytes)
  ELSE MulCarry([a |-> st.a, b |-> st.b, k |-> st.k + 1,
                 carry |-> (MulColumn(st.a, st.b, st.k) + st.carry) \div 256,
                 bytes |-> Append(st.bytes, (MulColumn(st.a, st.b, st.k) + st.carry) % 256)])

\* a * b modulo 2^WordSize
Mul(a, b) ==
  IF a = AllZeros \/ b = AllZeros THEN AllZeros
  ELSE MulCarry([a |-> Bytes(a), b |-> Bytes(b), k |-> 0, carry |-> 0, bytes |-> <<>>])

Mask55 == {i \in Bits : i % 2 = 0}
Mask33 == {i \in Bits : i % 4 < 2}
Mask0f == {i \in Bits : i % 8 < 4}

\* The element of a singleton set.  A value the code computes once and keeps
\* in a local variable x is bound as The({e : x \in {value}}): e with x
\* holding the value.
The(S) == CHOOSE x \in S : TRUE

ChunkPopcounts(value) ==
  The({The({And(Add(x2, Shr(x2, 4)), Mask0f) :
              x2 \in {Add(And(x1, Mask33), And(Shr(x1, 2), Mask33))}}) :
         x1 \in {Sub(value, And(Shr(value, 1), Mask55))}})

popcount(x) == ByteOf(Shr(Mul(ChunkPopcounts(x), PrefixSumMultiplierConstant), 56), 0)

(***************************************************************************)
(* WordSlice                                                               *)
(***************************************************************************)
WordSlice(vp, vn, se, sbs) == [VP |-> vp, VN |-> vn, scoreEnd |-> se, scoreBeforeStart |-> sbs]

\* the prefix sums of the chunks alone
bytePrefixSumsWithoutAddition(value, addition) ==
  Mul(Shl(value, ChunkBits), PrefixSumMultiplierConstant)

bytePrefixSums(value, addition) ==
  Mul(Add(Shl(value, ChunkBits), ToWord(addition)), PrefixSumMultiplierConstant)

byteVPVNSum(prefixSumVP, prefixSumVN) ==
  Xor(Sub(Add(SignMask, prefixSumVP), prefixSumVN), SignMask)

\* the lanes are added and subtracted as one word: a borrow runs into the next lane
LaneStepAcrossLanes(diffIn, add1, add2, sub1, sub2) ==
  Sub(Sub(Add(Add(diffIn, add1), add2), sub1), sub2)

\* one addition-then-deduction step on the byte lanes, with the sign bits
\* kept out of the carries (lines 849-864 and 871-888)
LaneStep(diffIn, add1, add2, sub1, sub2) ==
  The({The({Or(And(d2, Not(SignMask)), Xor(And(d1, SignMask), And(SignMask, Not(d2)))) :
              d2 \in {Sub(Sub(Or(d1, SignMask), sub1), sub2)}}) :
         d1 \in {Xor(Add(Add(And(diffIn, Not(SignMask)), add1), add2),
                      And(diffIn, SignMask))}})

\* the loop of lines 869-901; st holds the loop's variables
RECURSIVE differenceMasksLoop(_)
differenceMasksLoop(st) ==
  IF st.bit = ChunkBits THEN <<st.resL, st.resR>>
  ELSE differenceMasksLoop(The({
         [bit |-> st.bit + 1, dif |-> d,
          lVP |-> Shr(st.lVP, 1), lVN |-> Shr(st.lVN, 1),
          rVP |-> Shr(st.rVP, 1), rVN |-> Shr(st.rVN, 1),
          resL |-> Or(st.resL, Shr(And(d, SignMask), ChunkBits - 1 - st.bit)),
          resR |-> Or(st.resR,
                      Shr(And(And(Sub(Or(d, SignMask), LSBMask), SignMask),
                              Not(And(d, SignMask))),
                          ChunkBits - 1 - st.bit))] :
         d \in {LaneStep(st.dif, And(st.lVP, LSBMask), And(st.rVN, LSBMask),
                         And(st.lVN, LSBMask), And(st.rVP, LSBMask))}}))

differenceMasks(leftVP0, leftVN0, rightVP0, rightVN0, scoreDifference) ==
  The({
    IF scoreDifference > popcount(rightVN) + popcount(leftVP)
      THEN <<AllOnes, AllZeros>>
    ELSE IF scoreDifference = 128 /\ rightVN = AllOnes /\ leftVP = AllOnes
      THEN <<Xor(AllOnes, LastBitMask), AllZeros>>
    ELSE IF scoreDifference = 0 /\ rightVN = AllOnes /\ leftVP = AllOnes
      THEN <<AllZeros, AllOnes>>
    ELSE
      The({The({
        differenceMasksLoop(
          [bit |-> 0,
           dif |-> LaneStep(byteVPVNSumLeft,
                            Add(And(smearmask, Not(byteVPVNSumRight)),
                                And(smearmask, LSBMask)),
                            AllZeros,
                            And(And(Not(smearmask), byteVPVNSumRight), Not(SignMask)),
                            AllZeros),
           lVP |-> leftVP, lVN |-> leftVN, rVP |-> rightVP, rVN |-> rightVN,
           resL |-> AllZeros, resR |-> AllZeros]) :
        smearmask \in {Mul(Shr(And(byteVPVNSumRight, SignMask), ChunkBits - 1),
                           Sub(Shl(One, ChunkBits - 1), One))}}) :
      byteVPVNSumLeft \in {byteVPVNSum(bytePrefixSums(ChunkPopcounts(leftVP), 0),
                                       bytePrefixSums(ChunkPopcounts(leftVN), 0))},
      byteVPVNSumRight \in {byteVPVNSum(
                              bytePrefixSums(ChunkPopcounts(rightVP), scoreDifference),
                              bytePrefixSums(ChunkPopcounts(rightVN), 0))}}) :
    leftVP \in {And(leftVP0, Not(And(leftVP0, rightVP0)))},
    leftVN \in {And(leftVN0, Not(And(leftVN0, rightVN0)))},
    rightVP \in {And(rightVP0, Not(And(leftVP0, rightVP0)))},
    rightVN \in {And(rightVN0, Not(And(leftVN0, rightVN0)))}})

\* the loop of lines 787-799; st holds the loop's variables
RECURSIVE differenceCellLoop(_, _, _, _, _)
differenceCellLoop(leftVP, leftVN, rightVP, rightVN, st) ==
  IF st.i = WordSize THEN <<st.leftSmaller, st.rightSmaller>>
  ELSE LET leftscore == st.leftscore + (IF st.i \in leftVP THEN 1 ELSE 0)
                                     - (IF st.i \in leftVN THEN 1 ELSE 0)
           rightscore == st.rightscore + (IF st.i \in rightVP THEN 1 ELSE 0)
                                       - (IF st.i \in rightVN THEN 1 ELSE 0)
       IN differenceCellLoop(leftVP, leftVN, rightVP, rightVN,
            [i |-> st.i + 1, leftscore |-> leftscore, rightscore |-> rightscore,
             leftSmaller |-> IF leftscore < rightscore THEN Or(st.leftSmaller, {st.i})
                             ELSE st.leftSmaller,
             rightSmaller |-> IF rightscore < leftscore THEN Or(st.rightSmaller, {st.i})
                              ELSE st.rightSmaller])

differenceMasksCellByCell(leftVP, leftVN, rightVP, rightVN, scoreDifference) ==
  differenceCellLoop(leftVP, leftVN, rightVP, rightVN,
    [i |-> 0, leftscore |-> 0, rightscore |-> scoreDifference,
     leftSmaller |-> AllZeros, rightSmaller |-> AllZeros])

\* both selected words are taken from the right operand's side of the mask
selectByMaskWithoutComplement(leftBits, rightBits, mask) ==
  Or(And(leftBits, mask), And(rightBits, mask))

\* lines 934-935: the left operand's bits outside the mask, the right one's inside
selectByMask(leftBits, rightBits, mask) ==
  Or(And(leftBits, Not(mask)), And(rightBits, mask))

mergeTwoSlices(left0, right0) ==
  The({The({The({
    WordSlice(selectByMask(left.VP, right.VP, mask),
              selectByMask(And(left.VN, Not(leftReduction)),
                           And(right.VN, Not(rightReduction)), mask),
              Min(left.scoreEnd, right.scoreEnd),
              Min(left.scoreBeforeStart, right.scoreBeforeStart)) :
      mask \in {And(Or(masks[2], Sub(Or(masks[1], masks[2]), Shl(masks[2], 1))),
                    Not(masks[1]))},
      leftReduction \in {And(masks[1], Shl(masks[2], 1))},
      rightReduction \in
        {IF 0 \in masks[2] /\ left.scoreBeforeStart < right.scoreBeforeStart
           THEN Or(And(masks[2], Shl(masks[1], 1)), One)
           ELSE And(masks[2], Shl(masks[1], 1))}}) :
    \* masks[1] is leftSmaller, masks[2] is rightSmaller
    masks \in {differenceMasks(left.VP, left.VN, right.VP, right.VN,
                               right.scoreBeforeStart - left.scoreBeforeStart)}}) :
    left \in {IF left0.scoreBeforeStart > right0.scoreBeforeStart THEN right0 ELSE left0},
    right \in {IF left0.scoreBeforeStart > right0.scoreBeforeStart THEN left0 ELSE right0}})

\* the loop of lines 965-979; st holds the loop's variables
RECURSIVE mergeCellLoop(_, _, _)
mergeCellLoop(left, right, st) ==
  IF st.j = WordSize THEN WordSlice(st.VP, st.VN, st.previousScore,
                                    Min(left.scoreBeforeStart, right.scoreBeforeStart))
  ELSE LET ls == IF st.j \in left.VP THEN st.leftScore + 1
                 ELSE IF st.j \in left.VN THEN st.leftScore - 1 ELSE st.leftScore
           rs == IF st.j \in right.VN THEN st.rightScore - 1
                 ELSE IF st.j \in right.VP THEN st.rightScore + 1 ELSE st.rightScore
           betterScore == Min(ls, rs)
       IN mergeCellLoop(left, right,
            [j |-> st.j + 1, leftScore |-> ls, rightScore |-> rs, previousScore |-> betterScore,
             VP |-> IF betterScore = st.previousScore + 1 THEN Or(st.VP, {st.j}) ELSE st.VP,
             VN |-> IF betterScore = st.previousScore + 1 THEN st.VN
                    ELSE IF betterScore = st.previousScore - 1 THEN Or(st.VN, {st.j})
                    ELSE st.VN])

mergeTwoSlicesCellByCell(left, right) ==
  mergeCellLoop(left, right,
    [j |-> 0, leftScore |-> left.scoreBeforeStart, rightScore |-> right.scoreBeforeStart,
     previousScore |-> Min(left.scoreBeforeStart, right.scoreBeforeStart),
     VP |-> AllZeros, VN |-> AllZeros])

(***************************************************************************)
(* The graph (AlignmentGraph, immutable) and the aligner's sweep state.     *)
(***************************************************************************)
VARIABLES
  graph,                        \* const AlignmentGraph& graph
  pc,                           \* position of the running call
  readSequence,                 \* AlignOneWay: sequence
  overload,                     \* which AlignOneWay runs: "full" or "seeded"
  seedHits, startBandwidth,     \* AlignOneWay (seeded)
  dynamicWidth, dynamicRowStart,
  alignmentResult,              \* the AlignmentResult AlignOneWay returns
  sequence,                     \* the padded read the sweep works on
  startBand, maxScore,
  j,                            \* first row of the column
  currentBand, previousBand,
  bandOrder, bandOrderOutOfOrder,
  previousBandOrder, previousBandOrderOutOfOrder,
  currentSlice, previousSlice,
  currentMinimumScore, currentMinimumIndex, previousMinimumIndex,
  result,                       \* MatrixSlice
  correctEndValues,             \* cutCycles
  cutState,                     \* cutCycles: [i, index, reachable, source]
  pending,                      \* nodes the running loop has not visited yet
  returned,                     \* the slices getNextSlice and mergeTwoSlices returned in the last step
  evaluated,                    \* number of columns the sweep has begun
  lowered,                      \* per evaluated column: did the out-neighbour probe lower the minimum
  calculated                    \* calculateNode, forceSource false, in the last step: [node, slice, correctstart]

VARIABLES
  call,                         \* the local that receives the result of the running sweep or backtrace
  seedIndex,                    \* AlignOneWay (seeded): i
  hasAlignment, bestAlignment, bestSeed,
  slices,                       \* getSplitAlignment: the MatrixSlices computed so far
  newseq, partials,             \* estimateCorrectnessAndBacktraceBiggestPart
  scoreAtEnd, currentDistance,  \* backtraceInner
  visitedExpandos, currentDistanceQueue, currentDistancePlusOneQueue, visitedCells,
  backtraceresult, reverseBacktraceResult,
  failedAssert                  \* lines of the assertions of the driver and the backtrace that do not hold

VARIABLES
  leftSlice, rightSlice,        \* mergeTwoSlices: left, right
  merged,                       \* mergeTwoSlices: result
  correctValue,                 \* mergeTwoSlices: what mergeTwoSlicesCellByCell gives
  candidates,                   \* getNodeStartSlice: the last slices of the in-neighbours, in iteration order
  neighborsFound,               \* getNodeStartSlice: how many of them previous holds
  smallerMasks                  \* differenceMasks: the pair it returns

VARIABLES
  firstHalf, secondHalf         \* mergeAlignments: first, second

LengthMax == 2147483647

Back(v) == v[Len(v)]

RECURSIVE SetToSeq(_)
SetToSeq(S) == IF S = {} THEN <<>>
               ELSE LET m == CHOOSE x \in S : \A y \in S : x <= y
                    IN <<m>> \o SetToSeq(S \ {m})

\* graph.nodeSequences[w]
nodeSequences(w) == graph.nodeSequences[w + 1]

getSourceSliceWithoutBefore(row) == WordSlice(AllOnes, AllZeros, row + WordSize, row)

getSourceSliceFromScore(previousScore) ==
  WordSlice(AllOnes, AllZeros, previousScore + WordSize, previousScore)

\* the source slice from the last cell of the node in the column before
getSourceSliceOfLastCell(nodeIndex, prev) ==
  getSourceSliceFromScore(prev[nodeIndex][Len(prev[nodeIndex])].scoreEnd)

getSourceSlice(nodeIndex, prev) == getSourceSliceFromScore(prev[nodeIndex][1].scoreEnd)

isSource(nodeIndex, curBand, prevBand) ==
  \A neighbor \in graph.inNeighbors[nodeIndex] : ~curBand[neighbor] /\ ~prevBand[neighbor]

\* lines 1156-1179
firstZeroForced(prevBand, curBand, neighborNodeIndex, neighborSlice, currentEq) ==
  IF prevBand[neighborNodeIndex] /\ curBand[neighborNodeIndex]
    THEN \/ 0 \in neighborSlice.VN
         \/ 0 \notin neighborSlice.VP /\ 0 \notin neighborSlice.VN /\ 0 \notin currentEq
  ELSE IF prevBand[neighborNodeIndex] /\ ~curBand[neighborNodeIndex]
    THEN FALSE
  ELSE TRUE

getEq(BA, BT, BC, BG, w) ==
  CASE nodeSequences(w) = "A" -> BA
    [] nodeSequences(w) = "T" -> BT
    [] nodeSequences(w) = "C" -> BC
    [] nodeSequences(w) = "G" -> BG
    [] OTHER -> AllZeros

\* lines 1120-1127 without the decrease of line 1126
scoreEndWithoutDecrease(scoreEnd, Ph, Mh) ==
  IF WordSize - 1 \in Ph THEN scoreEnd + 1 ELSE scoreEnd

\* lines 1120-1127: the score of the last row follows the last horizontal delta
nextScoreEnd(scoreEnd, Ph, Mh) ==
  IF WordSize - 1 \in Ph THEN scoreEnd + 1
  ELSE IF WordSize - 1 \in Mh THEN scoreEnd - 1
  ELSE scoreEnd

\* line 1134 with | in the place of &
verticalNegativeJoined(Ph, Xv) == Or(Ph, Xv)

\* line 1134
verticalNegative(Ph, Xv) == And(Ph, Xv)

getNextSlice(Eq0, slice, previousInsideBand, previousEq, previous) ==
  The({The({The({The({
    WordSlice(Or(Mh, Not(Or(Xv, Ph))), verticalNegative(Ph, Xv),
              nextScoreEnd(slice.scoreEnd, Ph0, Mh0),
              newBefore) :
      Ph \in {IF newBefore - slice.scoreBeforeStart > 0
                THEN Or(Shl(Ph0, 1), One) ELSE Shl(Ph0, 1)},
      Mh \in {IF newBefore - slice.scoreBeforeStart < 0
                THEN Or(Shl(Mh0, 1), One) ELSE Shl(Mh0, 1)}}) :
    Xv \in {Or(Eq0, slice.VN)},
    Ph0 \in {Or(slice.VN, Not(Or(Xh, slice.VP)))},
    Mh0 \in {And(slice.VP, Xh)}}) :
    Xh \in {LET Eq == IF newBefore - slice.scoreBeforeStart < 0 THEN Or(Eq0, One) ELSE Eq0
            IN Or(Xor(Add(And(Eq, slice.VP), slice.VP), slice.VP), Eq)}}) :
    newBefore \in {IF ~previousInsideBand THEN slice.scoreBeforeStart + 1
                   ELSE Min(slice.scoreBeforeStart + 1,
                            previous.scoreEnd
                            - (IF WordSize - 1 \in previous.VP THEN 1 ELSE 0)
                            + (IF WordSize - 1 \in previous.VN THEN 1 ELSE 0)
                            + (IF previousEq THEN 0 ELSE 1))}})

\* the loop of lines 997-1037; st = [rest, previous, previousUp, foundOne, foundOneUp]
RECURSIVE getNodeStartSliceLoop(_, _, _, _, _)
getNodeStartSliceLoop(st, prev, cur, curBand, prevBand) ==
  IF st.rest = <<>> THEN st
  ELSE
    LET neighbor == Head(st.rest)
        fromScore == getSourceSliceFromScore(Back(prev[neighbor]).scoreEnd)
        found1 == st.foundOne \/ (prevBand[neighbor] /\ ~curBand[neighbor])
    IN getNodeStartSliceLoop(
         The({[rest |-> Tail(st.rest),
               previous |-> IF ~curBand[neighbor] THEN p1
                            ELSE IF ~found1 THEN Back(cur[neighbor])
                            ELSE mergeTwoSlices(p1, Back(cur[neighbor])),
               previousUp |-> IF ~prevBand[neighbor] THEN st.previousUp
                              ELSE IF ~st.foundOneUp THEN Back(prev[neighbor])
                              ELSE mergeTwoSlices(st.previousUp, Back(prev[neighbor])),
               foundOne |-> found1 \/ curBand[neighbor],
               foundOneUp |-> st.foundOneUp \/ prevBand[neighbor]] :
              p1 \in {IF ~(prevBand[neighbor] /\ ~curBand[neighbor]) THEN st.previous
                      ELSE IF ~st.foundOne THEN fromScore
                      ELSE mergeTwoSlices(st.previous, fromScore)}}),
         prev, cur, curBand, prevBand)

getNodeStartSlice(Eq, nodeIndex, prev, cur, curBand, prevBand, previousEq) ==
  The({getNextSlice(Eq, st.previous, st.foundOneUp, previousEq, st.previousUp) :
         st \in {getNodeStartSliceLoop(
                   [rest |-> SetToSeq(graph.inNeighbors[nodeIndex]),
                    previous |-> WordSlice(AllZeros, AllZeros, 0, 0),
                    previousUp |-> WordSlice(AllZeros, AllZeros, 0, 0),
                    foundOne |-> FALSE, foundOneUp |-> FALSE],
                   prev, cur, curBand, prevBand)}})

\* the two overlays of lines 1242-1249 and 1276-1283
withPreviousEnd(s, inPrevious, oldEnd) ==
  IF inPrevious /\ s.scoreBeforeStart > oldEnd
    THEN mergeTwoSlices(getSourceSliceFromScore(oldEnd), s) ELSE s

\* the slice as it is, whatever its first score
withoutRowStart(s, jj) == s

withRowStart(s, jj) ==
  IF s.scoreBeforeStart > jj THEN mergeTwoSlices(getSourceSliceWithoutBefore(jj), s) ELSE s

\* the loop of lines 1269-1304; st = [w, slice, minScore, minScoreIndex, returned]
RECURSIVE calculateNodeLoop(_, _, _, _, _, _, _, _, _, _)
calculateNodeLoop(st, i, jj, seq, BA, BT, BC, BG, inPrevious, oldSlice) ==
  IF st.w >= graph.nodeEnd[i] - graph.nodeStart[i] THEN st
  ELSE
    LET w == st.w
    IN calculateNodeLoop(
         The({The({The({
           [w |-> w + 1, slice |-> [st.slice EXCEPT ![w + 1] = s3],
            minScore |-> IF s3.scoreEnd <= st.minScore THEN s3.scoreEnd ELSE st.minScore,
            minScoreIndex |-> IF s3.scoreEnd <= st.minScore
                                THEN graph.nodeStart[i] + w ELSE st.minScoreIndex,
            returned |-> st.returned \cup {s1, s2, s3}] :
             s3 \in {withRowStart(s2, jj)}}) :
           s2 \in {withPreviousEnd(s1, inPrevious,
                                   IF inPrevious THEN oldSlice[w + 1].scoreEnd ELSE 0)}}) :
           s1 \in {getNextSlice(getEq(BA, BT, BC, BG, graph.nodeStart[i] + w),
                                st.slice[w], inPrevious,
                                jj = 0 \/ nodeSequences(graph.nodeStart[i] + w) = seq[jj],
                                IF inPrevious THEN oldSlice[w] ELSE st.slice[w])}}),
         i, jj, seq, BA, BT, BC, BG, inPrevious, oldSlice)

calculateNode(i, jj, seq, BA, BT, BC, BG, cur, prev, curBand, prevBand, forceSource) ==
  LET nodeStart == graph.nodeStart[i]
      oldSlice == IF prevBand[i] THEN prev[i] ELSE <<>>
      asSource == forceSource \/ isSource(i, curBand, prevBand)
      \* n[1], n[2], n[3]: the slice of getNodeStartSlice and its two overlays
      starts ==
        The({The({<<n1, n2, withRowStart(n2, jj)>> :
                    n2 \in {withPreviousEnd(n1, prevBand[i],
                                            IF prevBand[i] THEN oldSlice[1].scoreEnd ELSE 0)}}) :
               n1 \in {getNodeStartSlice(getEq(BA, BT, BC, BG, nodeStart), i, prev, cur,
                                         curBand, prevBand,
                                         jj = 0 \/ nodeSequences(nodeStart) = seq[jj])}})
  IN The({The({
       [slice |-> st.slice, minScore |-> st.minScore, minScoreIndex |-> st.minScoreIndex,
        cellsProcessed |-> (graph.nodeEnd[i] - graph.nodeStart[i]) * WordSize,
        returned |-> st.returned] :
         st \in {calculateNodeLoop(
                   [w |-> 1, slice |-> [cur[i] EXCEPT ![1] = n[1]],
                    minScore |-> IF n[1].scoreEnd < ScoreMax THEN n[1].scoreEnd ELSE ScoreMax,
                    minScoreIndex |-> IF n[1].scoreEnd < ScoreMax THEN nodeStart ELSE 0,
                    returned |-> n[2]],
                   i, jj, seq, BA, BT, BC, BG, prevBand[i], oldSlice)}}) :
       \* n[1] is the node's first slice, n[2] the slices the start produced
       n \in {IF asSource
                THEN <<IF prevBand[i] THEN getSourceSlice(i, prev)
                       ELSE getSourceSliceWithoutBefore(jj), {}>>
                ELSE <<starts[3], {starts[1], starts[2], starts[3]}>>}})

(***************************************************************************)
(* getWordSliceCellByCell (lines 673-776, the EXTRAASSERTIONS build): the    *)
(* slice at graph position w by the recurrence on single cells.  The arrays *)
(* current and previous are sequences: element k + 1 is entry k of the      *)
(* array, entry 0 being two rows before the slice and entry 1 one row.      *)
(***************************************************************************)
\* the score one row above the last row of a slice (lines 685, 702, 741)
scoreBeforeEnd(s) ==
  s.scoreEnd - (IF WordSize - 1 \in s.VP THEN 1 ELSE 0) + (IF WordSize - 1 \in s.VN THEN 1 ELSE 0)

\* the loops of lines 704-716 and 743-748: the rows of s below previous[1]
\* when s is in the column, one more for each row when it is not
previousColumn(first, second, s, inColumn) ==
  [k \in 1 .. (WordSize + 2) |->
     IF k = 1 THEN first
     ELSE IF inColumn
       THEN second + Cardinality({b \in s.VP : b < k - 2}) - Cardinality({b \in s.VN : b < k - 2})
       ELSE second + (k - 2)]

\* the character comparison of lines 722 and 754
cellMatches(seq, row, w) ==
  row > 0 /\ (seq[row] = nodeSequences(w) \/ seq[row] = "N")

\* the loops of lines 718-730 and 750-762; done holds the entries of current
\* the loop has been through, the loop's i is the last of them
RECURSIVE cellLoop(_, _, _, _, _, _)
cellLoop(done, current, previous, jj, w, seq) ==
  IF Len(done) = WordSize + 2 THEN done
  ELSE cellLoop(
         Append(done,
                Min(Min(Min(current[Len(done) + 1], previous[Len(done) + 1] + 1),
                        done[Len(done)] + 1),
                    IF cellMatches(seq, jj + Len(done) - 1, w)
                      THEN previous[Len(done)] ELSE previous[Len(done)] + 1)),
         current, previous, jj, w, seq)

\* lines 717-730 and 749-762: the column after one predecessor column
afterPrevious(current, previous, jj, w, seq) ==
  cellLoop(<<Min(current[1], previous[1] + 1)>>, current, previous, jj, w, seq)

\* the loop of lines 692-731 over the in-neighbours of a node
RECURSIVE neighborCellLoop(_, _, _, _, _, _, _, _, _)
neighborCellLoop(current, rest, jj, w, seq, cur, prev, curBand, prevBand) ==
  IF rest = <<>> THEN current
  ELSE
    LET neighbor == Head(rest)
    IN IF ~prevBand[neighbor] /\ ~curBand[neighbor]
         THEN neighborCellLoop(current, Tail(rest), jj, w, seq, cur, prev, curBand, prevBand)
         ELSE neighborCellLoop(
                The({afterPrevious(current, previous, jj, w, seq) :
                  previous \in {The({
                    previousColumn(
                      IF jj > 0 /\ prevBand[neighbor]
                        THEN Min(jj + 1, scoreBeforeEnd(Back(oldNeighborSlice))) ELSE jj + 1,
                      The({IF curBand[neighbor]
                             THEN Min(p1, Back(neighborSlice).scoreBeforeStart) ELSE p1 :
                           p1 \in {IF jj > 0 /\ prevBand[neighbor]
                                     THEN Min(jj, Back(oldNeighborSlice).scoreEnd) ELSE jj}}),
                      Back(neighborSlice), curBand[neighbor]) :
                    neighborSlice \in {IF curBand[neighbor] THEN cur[neighbor]
                                       ELSE prev[neighbor]},
                    oldNeighborSlice \in {IF prevBand[neighbor] THEN prev[neighbor]
                                          ELSE cur[neighbor]}})}}),
                Tail(rest), jj, w, seq, cur, prev, curBand, prevBand)

\* lines 733-763: the column after the slice before w in the same node
afterSameNode(current, jj, w, seq, cur, prev, prevBand) ==
  The({afterPrevious(current,
         previousColumn(
           IF prevBand[nodeIndex]
             THEN Min(cur[nodeIndex][u].scoreBeforeStart + 1, scoreBeforeEnd(prev[nodeIndex][u]))
             ELSE cur[nodeIndex][u].scoreBeforeStart + 1,
           IF prevBand[nodeIndex]
             THEN Min(cur[nodeIndex][u].scoreBeforeStart, prev[nodeIndex][u].scoreEnd)
             ELSE cur[nodeIndex][u].scoreBeforeStart,
           cur[nodeIndex][u], TRUE),
         jj, w, seq) :
       nodeIndex \in {graph.indexToNode[w]},
       \* u - graph.nodeStart[nodeIndex] as an index from 1
       u \in {w - graph.nodeStart[graph.indexToNode[w]]}})

getWordSliceCellByCell(jj, w, seq, cur, prev, curBand, prevBand) ==
  The({The({
    WordSlice({b \in Bits : current[b + 3] = current[b + 2] + 1},
              {b \in Bits : current[b + 3] = current[b + 2] - 1},
              current[WordSize + 2], current[2]) :
      current \in
        {IF w = graph.nodeStart[nodeIndex]
           THEN neighborCellLoop(start, SetToSeq(graph.inNeighbors[nodeIndex]),
                                 jj, w, seq, cur, prev, curBand, prevBand)
           ELSE afterSameNode(start, jj, w, seq, cur, prev, prevBand)}}) :
    nodeIndex \in {graph.indexToNode[w]},
    \* lines 682-689
    start \in
      {The({[k \in 1 .. (WordSize + 2) |-> IF k = 1 THEN first ELSE second + (k - 2)] :
         first \in {IF jj > 0 /\ prevBand[graph.indexToNode[w]]
                      THEN Min(jj + 1, scoreBeforeEnd(
                             prev[graph.indexToNode[w]]
                                 [w - graph.nodeStart[graph.indexToNode[w]] + 1]))
                      ELSE jj + 1},
         second \in {IF jj > 0 /\ prevBand[graph.indexToNode[w]]
                       THEN Min(jj, prev[graph.indexToNode[w]]
                                        [w - graph.nodeStart[graph.indexToNode[w]] + 1].scoreEnd)
                       ELSE jj}})}})

(***************************************************************************)
(* Band expansion (lines 543-650, 1411-1422, 1695-1718).                    *)
(***************************************************************************)
\* graph.ProjectForward: the positions reached from the given ones by walking
\* exactly amount characters along the nodes and their out-edges
ProjectOne(positions) ==
  {q \in 0 .. (Len(graph.nodeSequences) - 1) :
     \E pp \in positions :
        LET n == graph.indexToNode[pp]
        IN \/ pp + 1 < graph.nodeEnd[n] /\ q = pp + 1
           \/ pp + 1 = graph.nodeEnd[n]
              /\ \E neighbor \in graph.outNeighbors[n] : q = graph.nodeStart[neighbor]}

RECURSIVE ProjectForward(_, _)
ProjectForward(positions, amount) ==
  IF amount = 0 \/ positions = {} THEN positions
  ELSE ProjectForward(ProjectOne(positions), amount - 1)

NodePosWithDistance(node, end, distance) == [node |-> node, end |-> end, distance |-> distance]

\* the distance at the other side of a node, were it the length of the node
acrossNodeByLength(distance, size) == distance + size

\* lines 609 and 619: the distance at the other side of the node
acrossNode(distance, size) == distance + size - 1

\* the loop of lines 568-625; st = [queue, band, distanceAtNodeStart, distanceAtNodeEnd]
RECURSIVE expandBandLoop(_, _)
expandBandLoop(st, width) ==
  IF st.queue = {} THEN st.band
  ELSE
    LET top == CHOOSE e \in st.queue : \A f \in st.queue : e.distance <= f.distance
        rest == {e \in st.queue : e # top}
        known == IF top.end THEN st.distanceAtNodeEnd ELSE st.distanceAtNodeStart
        skip == \/ top.distance > width
                \/ (known[top.node] >= 0 /\ known[top.node] <= top.distance)
        size == graph.nodeEnd[top.node] - graph.nodeStart[top.node]
        pushed == IF top.end
                    THEN {NodePosWithDistance(top.node, FALSE, acrossNode(top.distance, size))}
                         \cup {NodePosWithDistance(neighbor, FALSE, top.distance + 1) :
                                 neighbor \in graph.outNeighbors[top.node]}
                    ELSE {NodePosWithDistance(top.node, TRUE, acrossNode(top.distance, size))}
                         \cup {NodePosWithDistance(neighbor, TRUE, top.distance + 1) :
                                 neighbor \in graph.inNeighbors[top.node]}
    IN IF skip
         THEN expandBandLoop([st EXCEPT !.queue = rest], width)
         ELSE expandBandLoop(
                [queue |-> {e \in rest \cup pushed : TRUE},
                 band |-> [st.band EXCEPT ![top.node] = TRUE],
                 distanceAtNodeStart |-> IF top.end THEN st.distanceAtNodeStart
                                         ELSE [st.distanceAtNodeStart EXCEPT ![top.node] = top.distance],
                 distanceAtNodeEnd |-> IF top.end
                                       THEN [st.distanceAtNodeEnd EXCEPT ![top.node] = top.distance]
                                       ELSE st.distanceAtNodeEnd],
                width)

\* -1 stands for a key the unordered_map does not hold
expandBandFromPositions(band, startpositions, width) ==
  expandBandLoop(
    [queue |-> {NodePosWithDistance(graph.indexToNode[sp], FALSE,
                                    sp - graph.nodeStart[graph.indexToNode[sp]]) :
                  sp \in startpositions}
               \cup {NodePosWithDistance(graph.indexToNode[sp], TRUE,
                                         graph.nodeEnd[graph.indexToNode[sp]] - sp - 1) :
                       sp \in startpositions},
     band |-> [n \in DOMAIN band |->
                 band[n] \/ \E sp \in startpositions : graph.indexToNode[sp] = n],
     distanceAtNodeStart |-> [n \in DOMAIN band |-> -1],
     distanceAtNodeEnd |-> [n \in DOMAIN band |-> -1]],
    width)

projectForwardAndExpandBand(band, minimumIndex, width) ==
  LET positions == ProjectForward({minimumIndex}, WordSize) \cup {minimumIndex}
  IN expandBandFromPositions([band EXCEPT ![graph.indexToNode[minimumIndex]] = TRUE],
                             positions, width)

\* getBandOrder, and the insertions into bandOrder / bandOrderOutOfOrder of the
\* band expansion: the two sets partition the band at graph.firstInOrder
\* every node of the band, whatever its index
EveryNodeOf(band) == {n \in DOMAIN band : band[n]}

InOrderOf(band) == {n \in DOMAIN band : band[n] /\ n >= graph.firstInOrder}
OutOfOrderOf(band) == {n \in DOMAIN band : band[n] /\ n < graph.firstInOrder}

getFullBand(sequenceSize, rowStart) ==
  [k \in 1 .. (rowStart \div WordSize) |-> [n \in DOMAIN graph.nodeStart |-> TRUE]]

\* the loop of lines 1703-1716; st = [queue, visited]
RECURSIVE extendedNodeBandLoop(_, _)
extendedNodeBandLoop(st, startExtensionWidth) ==
  IF st.queue = {} THEN st.visited
  ELSE
    LET top == CHOOSE e \in st.queue : \A f \in st.queue : e.distance <= f.distance
        rest == {e \in st.queue : e # top}
        newDistance == top.distance + graph.nodeEnd[top.node] - graph.nodeStart[top.node]
    IN IF top.distance > startExtensionWidth \/ top.node \in st.visited
         THEN extendedNodeBandLoop([st EXCEPT !.queue = rest], startExtensionWidth)
         ELSE extendedNodeBandLoop(
                [queue |-> {e \in rest \cup {NodePosWithDistance(neighbor, TRUE, newDistance) :
                                              neighbor \in graph.outNeighbors[top.node]} : TRUE},
                 visited |-> {n \in DOMAIN graph.nodeStart : n \in st.visited \/ n = top.node}],
                startExtensionWidth)

getExtendedNodeBand(nodeIndex, startExtensionWidth) ==
  LET visited == extendedNodeBandLoop(
                   [queue |-> {NodePosWithDistance(nodeIndex, TRUE, 0)}, visited |-> {}],
                   startExtensionWidth)
  IN << [n \in DOMAIN graph.nodeStart |-> n \in visited] >>

(***************************************************************************)
(* cutCycles (lines 1309-1409).  The entries of a cut are numbered from 0   *)
(* as in the source; entry k of cut.nodes is cut.nodes[k + 1].              *)
(***************************************************************************)
\* the root of the cut, whichever entry is asked for
cutRoot(cut, index) == cut.nodes[1]

cutNode(cut, index) == cut.nodes[index + 1]

\* st = [reachable, source], the sets of the entries whose flag is set
RECURSIVE getCycleCutReachability(_, _, _, _, _)
RECURSIVE reachPredecessors(_, _, _, _, _)
getCycleCutReachability(cut, index, curBand, prevBand, st) ==
  IF index \in st.reachable THEN st
  ELSE IF cut.previousCut[index + 1]
    THEN [st EXCEPT !.reachable = st.reachable \cup {index}]
  ELSE
    LET isSourceHere == \A otherIndex \in cut.predecessors[index + 1] :
                           /\ ~prevBand[cutNode(cut, otherIndex)]
                           /\ ~curBand[cutNode(cut, otherIndex)]
        st1 == [reachable |-> st.reachable \cup {index},
                source |-> IF isSourceHere THEN st.source \cup {index} ELSE st.source]
    IN reachPredecessors(cut, SetToSeq(cut.predecessors[index + 1]), curBand, prevBand, st1)

reachPredecessors(cut, others, curBand, prevBand, st) ==
  IF others = <<>> THEN st
  ELSE reachPredecessors(cut, Tail(others), curBand, prevBand,
         IF curBand[cutNode(cut, Head(others))]
           THEN getCycleCutReachability(cut, Head(others), curBand, prevBand, st)
           ELSE st)

\* the source slice lines 1338-1345 and 1390-1397 put at the end of a node
boundarySlice(node, jj, prev, prevBand) ==
  IF prevBand[node] THEN getSourceSliceFromScore(Back(prev[node]).scoreEnd)
  ELSE getSourceSliceWithoutBefore(jj)

setBack(cur, node, value) == [cur EXCEPT ![node] = [@ EXCEPT ![Len(@)] = value]]

unsetEndValue == WordSlice(AllZeros, AllZeros, ScoreMax, ScoreMax)

\* lines 1386-1399: after cut i was evaluated
restoreAfterCut(cur, i, jj, prev, curBand, prevBand, endValue) ==
  LET members == {cutNode(graph.cuts[i], index) : index \in 1 .. (Len(graph.cuts[i].nodes) - 1)}
  IN [node \in DOMAIN cur |->
        IF node = i THEN [cur[node] EXCEPT ![Len(cur[node])] = endValue]
        ELSE IF node \in members /\ curBand[node]
          THEN [cur[node] EXCEPT ![Len(cur[node])] = boundarySlice(node, jj, prev, prevBand)]
        ELSE cur[node]]

(***************************************************************************)
(* The column minimum (lines 1599-1623 and 1629-1653).                      *)
(***************************************************************************)
\* does the probe of the out-neighbours of node i lower the minimum
neighborProbe(i, nodeCalc, cur, seq, jj) ==
  /\ nodeCalc.minScoreIndex = graph.nodeEnd[i] - 1
  /\ WordSize - 1 \in Back(cur[i]).VP
  /\ \E neighbor \in graph.outNeighbors[i] :
        seq[jj + WordSize] = nodeSequences(graph.nodeStart[neighbor])

\* lines 1599-1623 with line 1617 an assignment: the index becomes the start of
\* the last out-neighbour whose first character is the read character
minimumAfterNodeAssigned(i, nodeCalc, cur, seq, jj, minimumScore, minimumIndex) ==
  LET smaller == nodeCalc.minScore < minimumScore
      score1 == IF smaller THEN nodeCalc.minScore ELSE minimumScore
      index1 == IF smaller THEN nodeCalc.minScoreIndex ELSE minimumIndex
      probe == nodeCalc.minScore <= score1 /\ neighborProbe(i, nodeCalc, cur, seq, jj)
      found == {neighbor \in graph.outNeighbors[i] :
                  seq[jj + WordSize] = nodeSequences(graph.nodeStart[neighbor])}
  IN [score |-> IF probe THEN nodeCalc.minScore - 1 ELSE score1,
      index |-> IF probe
                  THEN graph.nodeStart[CHOOSE n \in found : \A m \in found : m <= n]
                  ELSE index1,
      lowered |-> probe]

\* [score, index, lowered] after node i was calculated
minimumAfterNode(i, nodeCalc, cur, seq, jj, minimumScore, minimumIndex) ==
  LET smaller == nodeCalc.minScore < minimumScore
      score1 == IF smaller THEN nodeCalc.minScore ELSE minimumScore
      index1 == IF smaller THEN nodeCalc.minScoreIndex ELSE minimumIndex
      probe == nodeCalc.minScore <= score1 /\ neighborProbe(i, nodeCalc, cur, seq, jj)
  IN [score |-> IF probe THEN nodeCalc.minScore - 1 ELSE score1,
      index |-> index1,
      lowered |-> probe]

\* lines 1676-1684 with the two values of the pair exchanged
RECURSIVE sentinelFillExchanged(_, _, _)
sentinelFillExchanged(res, i, size) ==
  IF i >= size THEN res
  ELSE sentinelFillExchanged([res EXCEPT !.minScorePerWordSlice = Append(@, 0),
                                         !.minScoreIndexPerWordSlice = Append(@, size)],
                             i + WordSize, size)

\* lines 1676-1684 with <= in the place of < in the loop condition
RECURSIVE sentinelFillInclusive(_, _, _)
sentinelFillInclusive(res, i, size) ==
  IF i > size THEN res
  ELSE sentinelFillInclusive([res EXCEPT !.minScorePerWordSlice = Append(@, size),
                                         !.minScoreIndexPerWordSlice = Append(@, 0)],
                             i + WordSize, size)

\* lines 1676-1684: the entries of the columns that are not evaluated
RECURSIVE sentinelFill(_, _, _)
sentinelFill(res, i, size) ==
  IF i >= size THEN res
  ELSE sentinelFill([res EXCEPT !.minScorePerWordSlice = Append(@, size),
                                !.minScoreIndexPerWordSlice = Append(@, 0)],
                    i + WordSize, size)

\* the equality masks of lines 1455-1545
matches(readChar, c) ==
  CASE readChar \in {"A", "a"} -> c = "A"
    [] readChar \in {"T", "t"} -> c = "T"
    [] readChar \in {"C", "c"} -> c = "C"
    [] readChar \in {"G", "g"} -> c = "G"
    [] readChar \in {"N", "n"} -> TRUE
    [] readChar \in {"R", "r"} -> c \in {"A", "G"}
    [] readChar \in {"Y", "y"} -> c \in {"C", "T"}
    [] readChar \in {"K", "k"} -> c \in {"G", "T"}
    [] readChar \in {"M", "m"} -> c \in {"A", "C"}
    [] readChar \in {"S", "s"} -> c \in {"C", "G"}
    [] readChar \in {"W", "w"} -> c \in {"A", "T"}
    [] readChar \in {"B", "b"} -> c \in {"C", "G", "T"}
    [] readChar \in {"D", "d"} -> c \in {"A", "G", "T"}
    [] readChar \in {"H", "h"} -> c \in {"A", "C", "T"}
    [] readChar \in {"V", "v"} -> c \in {"A", "C", "G"}
    [] OTHER -> FALSE

equalityMask(seq, jj, c) ==
  {i \in Bits : jj + i < Len(seq) /\ matches(seq[jj + i + 1], c)}

(***************************************************************************)
(* getBitvectorSliceScoresAndFinalPosition (lines 1424-1693), one action    *)
(* for each node calculation and each step of the loop around them.         *)
(***************************************************************************)
sweepVars == <<sequence, startBand, maxScore, j, currentBand, previousBand,
               bandOrder, bandOrderOutOfOrder, previousBandOrder, previousBandOrderOutOfOrder,
               currentSlice, previousSlice, currentMinimumScore, currentMinimumIndex,
               previousMinimumIndex, result, correctEndValues, cutState, pending,
               returned, evaluated, lowered, calculated>>

inputVars == <<graph, readSequence, overload, seedHits, startBandwidth,
               dynamicWidth, dynamicRowStart>>

mergeVars == <<leftSlice, rightSlice, merged, correctValue, candidates, neighborsFound,
               smallerMasks>>

\* what no step of AlignOneWay changes
halfVars == <<firstHalf, secondHalf>>

fixedVars == <<inputVars, mergeVars, halfVars>>

backtraceVars == <<newseq, partials, scoreAtEnd, currentDistance, visitedExpandos,
                   currentDistanceQueue, currentDistancePlusOneQueue, visitedCells>>

seedVars == <<seedIndex, hasAlignment, bestAlignment, bestSeed, slices>>

\* what a sweep leaves alone
callerVars == <<alignmentResult, call, seedVars, backtraceVars, backtraceresult,
                reverseBacktraceResult, failedAssert>>

NoBand == [n \in DOMAIN graph.nodeStart |-> FALSE]

nodeLength(n) == graph.nodeEnd[n] - graph.nodeStart[n]

\* NodeSlice::addNode: a vector of default-constructed slices
addNodes(nodes, value) == [n \in nodes |-> [w \in 1 .. nodeLength(n) |-> value]]

\* lines 1427-1447: the call of the sweep
SweepCall(seq, band, ceiling) ==
  /\ sequence' = seq
  /\ startBand' = band
  /\ maxScore' = ceiling
  /\ j' = 0
  /\ result' = [minScorePerWordSlice |-> <<0>>, minScoreIndexPerWordSlice |-> <<0>>,
                cellsProcessed |-> 0]
  /\ previousSlice' = <<>>
  /\ currentSlice' = <<>>
  /\ previousMinimumIndex' = LengthMax
  /\ currentBand' = NoBand
  /\ previousBand' = NoBand
  /\ bandOrder' = {}
  /\ bandOrderOutOfOrder' = {}
  /\ previousBandOrder' = {}
  /\ previousBandOrderOutOfOrder' = {}
  /\ currentMinimumScore' = ScoreMax
  /\ currentMinimumIndex' = LengthMax
  /\ correctEndValues' = <<>>
  /\ cutState' = <<>>
  /\ pending' = <<>>
  /\ returned' = {}
  /\ calculated' = <<>>
  /\ evaluated' = 0
  /\ lowered' = <<>>
  /\ pc' = "column"

\* the out-of-order loop before the in-order loop
nodeLoopOutOfOrderFirst(inOrder, outOfOrder) ==
  IF outOfOrder # {} THEN [pc |-> "outOfOrder", pending |-> SetToSeq(outOfOrder)]
  ELSE IF inOrder # {} THEN [pc |-> "inOrder", pending |-> SetToSeq(inOrder)]
  ELSE [pc |-> "columnEnd", pending |-> <<>>]

\* where the column goes on after cutCycles
nodeLoop(inOrder, outOfOrder) ==
  IF inOrder # {} THEN [pc |-> "inOrder", pending |-> SetToSeq(inOrder)]
  ELSE IF outOfOrder # {} THEN [pc |-> "outOfOrder", pending |-> SetToSeq(outOfOrder)]
  ELSE [pc |-> "columnEnd", pending |-> <<>>]

\* lines 1451-1593
BeginColumn ==
  /\ pc = "column"
  /\ \E slice \in {j \div WordSize} :
     \E fromStart \in {Len(startBand) > slice} :
     \* the nodes the expansion inserts into the band and into the two orders
     \E inserted \in {IF fromStart THEN startBand[slice + 1]
                      ELSE projectForwardAndExpandBand(NoBand, previousMinimumIndex,
                                                       dynamicWidth)} :
     \E band \in {IF fromStart THEN inserted
                  ELSE [n \in DOMAIN inserted |-> previousBand[n] \/ inserted[n]]} :
     \E before \in {IF fromStart /\ slice = 0 THEN band ELSE currentBand} :
        /\ currentBand' = band
        /\ previousBand' = before
        /\ bandOrder' = InOrderOf(inserted)
        /\ bandOrderOutOfOrder' = OutOfOrderOf(inserted)
        /\ IF fromStart /\ slice = 0
             THEN /\ previousBandOrder' = InOrderOf(band)
                  /\ previousBandOrderOutOfOrder' = OutOfOrderOf(band)
                  /\ previousSlice' = addNodes({n \in DOMAIN band : band[n]},
                                               WordSlice(AllZeros, AllZeros, 0, 0))
             ELSE UNCHANGED <<previousBandOrder, previousBandOrderOutOfOrder, previousSlice>>
        /\ currentSlice' = addNodes({n \in DOMAIN inserted : inserted[n]},
                                    WordSlice(AllZeros, AllZeros, 0, 0))
  /\ currentMinimumScore' = ScoreMax
  /\ currentMinimumIndex' = LengthMax
  /\ evaluated' = evaluated + 1
  /\ lowered' = Append(lowered, FALSE)
  /\ returned' = {}
  /\ calculated' = <<>>
  /\ pc' = "cutCycles"
  /\ UNCHANGED <<sequence, startBand, maxScore, j, previousMinimumIndex, result,
                 correctEndValues, cutState, pending, callerVars>>
  /\ UNCHANGED fixedVars

\* lines 1335-1353
CutCyclesBegin ==
  /\ pc = "cutCycles"
  /\ IF graph.firstInOrder = 0
       THEN /\ pc' = nodeLoop(bandOrder, bandOrderOutOfOrder).pc
            /\ pending' = nodeLoop(bandOrder, bandOrderOutOfOrder).pending
            /\ UNCHANGED <<currentSlice, correctEndValues>>
       ELSE /\ currentSlice' = [node \in DOMAIN currentSlice |->
                                  [currentSlice[node] EXCEPT ![Len(currentSlice[node])] =
                                     boundarySlice(node, j, previousSlice, previousBand)]]
            /\ correctEndValues' = [order \in bandOrderOutOfOrder |-> unsetEndValue]
            /\ pending' = SetToSeq(bandOrderOutOfOrder)
            /\ pc' = "cutRoot"
  /\ returned' = {}
  /\ calculated' = <<>>
  /\ UNCHANGED <<sequence, startBand, maxScore, j, currentBand, previousBand,
                 bandOrder, bandOrderOutOfOrder, previousBandOrder, previousBandOrderOutOfOrder,
                 previousSlice, currentMinimumScore, currentMinimumIndex,
                 previousMinimumIndex, result, cutState, evaluated, lowered, callerVars>>
  /\ UNCHANGED fixedVars

sweepConstants == <<sequence, startBand, maxScore, j, currentBand, previousBand,
                    bandOrder, bandOrderOutOfOrder, previousBandOrder,
                    previousBandOrderOutOfOrder, previousSlice, previousMinimumIndex,
                    evaluated, callerVars>>

BA == equalityMask(sequence, j, "A")
BT == equalityMask(sequence, j, "T")
BC == equalityMask(sequence, j, "C")
BG == equalityMask(sequence, j, "G")

\* cutCycles without its last loop
keepEndValues(cur, outOfOrder, endValues) == cur

\* lines 1402-1408
restoreEndValues(cur, outOfOrder, endValues) ==
  [node \in DOMAIN cur |->
     IF node \in outOfOrder /\ node # 0
       THEN [cur[node] EXCEPT ![Len(cur[node])] = endValues[node]]
       ELSE cur[node]]

\* lines 1354-1367, and lines 1402-1408 once every cut was evaluated
CutCyclesRoot ==
  /\ pc = "cutRoot"
  /\ IF pending = <<>>
       THEN /\ currentSlice' = restoreEndValues(currentSlice, bandOrderOutOfOrder,
                                                correctEndValues)
            /\ pc' = nodeLoop(bandOrder, bandOrderOutOfOrder).pc
            /\ pending' = nodeLoop(bandOrder, bandOrderOutOfOrder).pending
            /\ UNCHANGED cutState
       ELSE IF Head(pending) = 0
         THEN /\ pending' = Tail(pending)
              /\ UNCHANGED <<pc, currentSlice, cutState>>
         ELSE LET i == Head(pending)
                  reach == getCycleCutReachability(graph.cuts[i], 0, currentBand, previousBand,
                                                   [reachable |-> {}, source |-> {}])
              IN /\ cutState' = [i |-> i, index |-> Len(graph.cuts[i].nodes) - 1,
                                 reachable |-> reach.reachable, source |-> reach.source]
                 /\ pc' = "cutIndex"
                 /\ UNCHANGED <<pending, currentSlice>>
  /\ returned' = {}
  /\ calculated' = <<>>
  /\ UNCHANGED <<currentMinimumScore, currentMinimumIndex, result, correctEndValues, lowered>>
  /\ UNCHANGED sweepConstants
  /\ UNCHANGED fixedVars

\* lines 1368-1383 for the next reachable entry of the cut, and lines 1384-1400
\* once no entry is left
CutCyclesIndex ==
  /\ pc = "cutIndex"
  /\ LET i == cutState.i
         cut == graph.cuts[i]
         left == {index \in cutState.reachable : index <= cutState.index}
     IN IF left = {}
          THEN /\ correctEndValues' = [correctEndValues EXCEPT ![i] = Back(currentSlice[i])]
               /\ currentSlice' = restoreAfterCut(currentSlice, i, j, previousSlice, currentBand,
                                                  previousBand, Back(currentSlice[i]))
               /\ pending' = Tail(pending)
               /\ pc' = "cutRoot"
               /\ returned' = {}
               /\ calculated' = <<>>
               /\ UNCHANGED cutState
          ELSE \E index \in {x \in left : \A y \in left : y <= x} :
               \E node \in {cutNode(cut, index)} :
               \E nodeCalc \in {calculateNode(node, j, sequence, BA, BT, BC, BG, currentSlice,
                                              previousSlice, currentBand, previousBand,
                                              index \in cutState.source)} :
                  /\ IF cut.previousCut[index + 1]
                       THEN /\ currentSlice' = setBack(currentSlice, node, correctEndValues[node])
                            /\ returned' = {}
                       ELSE /\ currentSlice' = [currentSlice EXCEPT ![node] = nodeCalc.slice]
                            /\ returned' = nodeCalc.returned
                  /\ calculated' =
                       IF index \in cutState.source THEN <<>>
                       ELSE [node |-> node, slice |-> nodeCalc.slice,
                             correctstart |->
                               getWordSliceCellByCell(j, graph.nodeStart[node], sequence,
                                                      currentSlice, previousSlice,
                                                      currentBand, previousBand)]
                  /\ cutState' = [cutState EXCEPT !.index = index - 1]
                  /\ UNCHANGED <<correctEndValues, pending, pc>>
  /\ UNCHANGED <<currentMinimumScore, currentMinimumIndex, result, lowered>>
  /\ UNCHANGED sweepConstants
  /\ UNCHANGED fixedVars

\* the body of the loops of lines 1595-1624 and 1625-1654 for node i
CalculateInBand(i) ==
  \E nodeCalc \in {calculateNode(i, j, sequence, BA, BT, BC, BG, currentSlice, previousSlice,
                                 currentBand, previousBand, FALSE)} :
  \E cur \in {[currentSlice EXCEPT ![i] = nodeCalc.slice]} :
  \E minimum \in {minimumAfterNode(i, nodeCalc, cur, sequence, j,
                                   currentMinimumScore, currentMinimumIndex)} :
     /\ currentSlice' = cur
     /\ currentMinimumScore' = minimum.score
     /\ currentMinimumIndex' = minimum.index
     /\ lowered' = [lowered EXCEPT ![Len(lowered)] = @ \/ minimum.lowered]
     /\ result' = [result EXCEPT !.cellsProcessed = @ + nodeCalc.cellsProcessed]
     /\ returned' = nodeCalc.returned
     \* lines 1213-1219: correctstart is computed before the node
     /\ calculated' = [node |-> i, slice |-> nodeCalc.slice,
                       correctstart |->
                         getWordSliceCellByCell(j, graph.nodeStart[i], sequence, currentSlice,
                                                previousSlice, currentBand, previousBand)]

\* lines 1595-1624
CalculateInOrder ==
  /\ pc = "inOrder"
  /\ CalculateInBand(Head(pending))
  /\ IF Tail(pending) # <<>>
       THEN pending' = Tail(pending) /\ UNCHANGED pc
       ELSE /\ pc' = nodeLoop({}, bandOrderOutOfOrder).pc
            /\ pending' = nodeLoop({}, bandOrderOutOfOrder).pending
  /\ UNCHANGED <<correctEndValues, cutState>>
  /\ UNCHANGED sweepConstants
  /\ UNCHANGED fixedVars

\* lines 1625-1654
CalculateOutOfOrder ==
  /\ pc = "outOfOrder"
  /\ CalculateInBand(Head(pending))
  /\ pending' = Tail(pending)
  /\ pc' = IF Tail(pending) # <<>> THEN "outOfOrder" ELSE "columnEnd"
  /\ UNCHANGED <<correctEndValues, cutState>>
  /\ UNCHANGED sweepConstants
  /\ UNCHANGED fixedVars

\* lines 1655-1685
EndColumn ==
  /\ pc = "columnEnd"
  /\ previousBand' = [n \in DOMAIN previousBand |->
                        previousBand[n] /\ n \notin previousBandOrder
                                        /\ n \notin previousBandOrderOutOfOrder]
  /\ previousSlice' = currentSlice
  /\ currentSlice' = <<>>
  /\ previousMinimumIndex' = currentMinimumIndex
  /\ previousBandOrder' = bandOrder
  /\ previousBandOrderOutOfOrder' = bandOrderOutOfOrder
  /\ bandOrder' = {}
  /\ bandOrderOutOfOrder' = {}
  /\ LET appended == [result EXCEPT
                        !.minScorePerWordSlice = Append(@, currentMinimumScore),
                        !.minScoreIndexPerWordSlice = Append(@, currentMinimumIndex)]
     IN IF currentMinimumScore > maxScore
          THEN /\ result' = sentinelFill(appended, j + WordSize, Len(sequence))
               /\ pc' = "sweepDone"
               /\ UNCHANGED j
          ELSE /\ result' = appended
               /\ j' = j + WordSize
               /\ pc' = IF j + WordSize < Len(sequence) THEN "column" ELSE "sweepDone"
  /\ returned' = {}
  /\ calculated' = <<>>
  /\ UNCHANGED <<sequence, startBand, maxScore, currentBand, currentMinimumScore,
                 currentMinimumIndex, correctEndValues, cutState, pending, evaluated,
                 lowered, callerVars>>
  /\ UNCHANGED fixedVars

(***************************************************************************)
(* The finalised graphs the aligner is constructed on.  AlignmentGraph is   *)
(* not part of the source file; a graph holds the members the aligner       *)
(* reads.  Node 0 is the start sentinel and the last node the end sentinel, *)
(* both an isolated node of the one character "-".                          *)
(***************************************************************************)
Base == <<"A", "C", "G", "T">>

Complement(c) == CASE c = "A" -> "T" [] c = "T" -> "A" [] c = "C" -> "G" [] c = "G" -> "C"
                   [] OTHER -> c

\* CommonUtils::ReverseComplement
ReverseComplement(str) == [k \in 1 .. Len(str) |-> Complement(str[Len(str) + 1 - k])]

RECURSIVE Flatten(_)
Flatten(labels) == IF labels = <<>> THEN <<>> ELSE Head(labels) \o Flatten(Tail(labels))

repeat(str, times) == Flatten([k \in 1 .. times |-> str])

RECURSIVE LengthBefore(_, _)
LengthBefore(labels, n) == IF n = 0 THEN 0 ELSE Len(labels[n]) + LengthBefore(labels, n - 1)

\* labels: the node sequences, node n being labels[n + 1]; twin: the node of the
\* other strand; ids: nodeIDs
MakeGraph(labels, edges, firstInOrder, cuts, twin, ids) ==
  LET nodes == 0 .. (Len(labels) - 1)
      start == [n \in nodes |-> LengthBefore(labels, n)]
      stop == [n \in nodes |-> LengthBefore(labels, n + 1)]
  IN [nodeStart |-> start,
      nodeEnd |-> stop,
      nodeSequences |-> Flatten(labels),
      indexToNode |-> [q \in 0 .. (LengthBefore(labels, Len(labels)) - 1) |->
                         CHOOSE n \in nodes : start[n] <= q /\ q < stop[n]],
      inNeighbors |-> [n \in nodes |-> {e[1] : e \in {f \in edges : f[2] = n}}],
      outNeighbors |-> [n \in nodes |-> {e[2] : e \in {f \in edges : f[1] = n}}],
      firstInOrder |-> firstInOrder,
      cuts |-> cuts,
      dummyNodeStart |-> 0,
      dummyNodeEnd |-> Len(labels) - 1,
      reverse |-> [n \in nodes |-> twin[n] < n],
      twin |-> twin,
      nodeIDs |-> ids,
      nodeLookup |-> [id \in {ids[n] : n \in nodes} |-> CHOOSE n \in nodes : ids[n] = id]]

\* graph.GetReversePosition: the same character on the other strand
GetReversePosition(pos) ==
  LET n == graph.indexToNode[pos]
  IN graph.nodeStart[graph.twin[n]] + (graph.nodeEnd[n] - 1 - pos)

ChainLength == 140
FirstNodeLength == 50
SecondNodeLength == 50

\* character p of the chain's forward strand
chainCharacter(p) == Base[(((7 * p * p) \div 89 + p \div 3) % 4) + 1]

chainPart(from, to) == [k \in 1 .. (to - from) |-> chainCharacter(from + k)]

\* three nodes in a row and their reverse complements
ChainGraph ==
  LET X == chainPart(0, FirstNodeLength)
      Y == chainPart(FirstNodeLength, FirstNodeLength + SecondNodeLength)
      Z == chainPart(FirstNodeLength + SecondNodeLength, ChainLength)
  IN MakeGraph(<< <<"-">>, X, Y, Z, ReverseComplement(Z), ReverseComplement(Y),
                  ReverseComplement(X), <<"-">> >>,
               {<<1, 2>>, <<2, 3>>, <<4, 5>>, <<5, 6>>}, 0, <<>>,
               [n \in 0 .. 7 |-> 7 - n],
               [n \in 0 .. 7 |-> CASE n = 1 -> 2 [] n = 2 -> 4 [] n = 3 -> 6
                                   [] n = 4 -> 7 [] n = 5 -> 5 [] n = 6 -> 3
                                   [] n = 0 -> 0 [] OTHER -> 1])

LinearNodes == 10
LinearNodeLength == 4

\* LinearNodes nodes of LinearNodeLength characters in a row, between the two sentinels
LinearGraph ==
  MakeGraph([n \in 1 .. (LinearNodes + 2) |->
               IF n = 1 \/ n = LinearNodes + 2 THEN <<"-">>
               ELSE chainPart((n - 2) * LinearNodeLength, (n - 1) * LinearNodeLength)],
            {<<n, n + 1>> : n \in 1 .. (LinearNodes - 1)}, 0, <<>>,
            [n \in 0 .. (LinearNodes + 1) |-> n], [n \in 0 .. (LinearNodes + 1) |-> 2 * n])

\* S -> A, B -> T
DiamondGraph ==
  MakeGraph(<< <<"-">>, <<"C">>, <<"A", "A">>, <<"G", "G">>, <<"T">>, <<"-">> >>,
            {<<1, 2>>, <<1, 3>>, <<2, 4>>, <<3, 4>>}, 0, <<>>,
            [n \in 0 .. 5 |-> n], [n \in 0 .. 5 |-> 2 * n])

PalindromeRepeats == 20

\* one node that is its own reverse complement, and its twin
PalindromeGraph ==
  LET X == repeat(<<"A", "C", "G", "T">>, PalindromeRepeats)
  IN MakeGraph(<< <<"-">>, X, ReverseComplement(X), <<"-">> >>, {}, 0, <<>>,
               [n \in 0 .. 3 |-> 3 - n],
               [n \in 0 .. 3 |-> CASE n = 1 -> 2 [] n = 2 -> 3 [] n = 0 -> 0 [] OTHER -> 1])

CycleNodeA == <<"A", "C", "G", "T", "T", "G", "C", "A">>
CycleNodeB == <<"G", "A", "T", "T", "A", "C", "A", "C">>
CutDepth == 16

CycleRounds == 5

\* A -> B -> A with the feedback node A = 1; its cut walks the cycle backwards
CycleGraph ==
  MakeGraph(<< <<"-">>, CycleNodeA, CycleNodeB, <<"-">> >>,
            {<<1, 2>>, <<2, 1>>}, 2,
            [i \in {1} |->
               [nodes |-> [k \in 1 .. (CutDepth + 1) |-> IF k % 2 = 1 THEN 1 ELSE 2],
                previousCut |-> [k \in 1 .. (CutDepth + 1) |-> FALSE],
                predecessors |-> [k \in 1 .. (CutDepth + 1) |->
                                    IF k <= CutDepth THEN {k} ELSE {}]]],
            [n \in 0 .. 3 |-> n], [n \in 0 .. 3 |-> 2 * n])

\* A -> B -> A with both nodes feedback nodes: the cut of A walks the cycle
\* backwards, the cut of B takes the value of A from the cut of A
TwoCutGraph ==
  MakeGraph(<< <<"-">>, CycleNodeA, CycleNodeB, <<"-">> >>,
            {<<1, 2>>, <<2, 1>>}, 3,
            [i \in {1, 2} |->
               IF i = 1
                 THEN [nodes |-> [k \in 1 .. (CutDepth + 1) |-> IF k % 2 = 1 THEN 1 ELSE 2],
                       previousCut |-> [k \in 1 .. (CutDepth + 1) |-> FALSE],
                       predecessors |-> [k \in 1 .. (CutDepth + 1) |->
                                           IF k <= CutDepth THEN {k} ELSE {}]]
                 ELSE [nodes |-> <<2, 1>>,
                       previousCut |-> <<FALSE, TRUE>>,
                       predecessors |-> << {1}, {} >>]],
            [n \in 0 .. 3 |-> n], [n \in 0 .. 3 |-> 2 * n])

(***************************************************************************)
(* estimateCorrectAlignmentViterbi (lines 1813-1897).                       *)
(*                                                                         *)
(* boost::multiprecision::cpp_int: a natural number is the sequence of its  *)
(* digits in base LimbBase, least significant first, without leading zeros. *)
(***************************************************************************)
LimbBase == 10000

\* st = [k, carry, out]
RECURSIVE BigTimesLoop(_, _, _)
BigTimesLoop(x, m, st) ==
  IF st.k > Len(x)
    THEN IF st.carry = 0 THEN st.out ELSE Append(st.out, st.carry)
  ELSE LET v == x[st.k] * m + st.carry
       IN BigTimesLoop(x, m, [k |-> st.k + 1, carry |-> v \div LimbBase,
                              out |-> Append(st.out, v % LimbBase)])

\* x * m for 0 < m <= LimbBase
BigTimes(x, m) == BigTimesLoop(x, m, [k |-> 1, carry |-> 0, out |-> <<>>])

\* x * m^e; st = [x, e]
RECURSIVE BigTimesPower(_, _)
BigTimesPower(st, m) ==
  IF st.e = 0 THEN st.x
  ELSE BigTimesPower([x |-> BigTimes(st.x, m), e |-> st.e - 1], m)

\* x * LimbBase^n
BigShift(x, n) == [k \in 1 .. n |-> 0] \o x

BigLess(x, y) ==
  IF Len(x) # Len(y) THEN Len(x) < Len(y)
  ELSE LET differ == {k \in 1 .. Len(x) : x[k] # y[k]}
       IN differ # {} /\ LET top == CHOOSE k \in differ : \A l \in differ : l <= k
                         IN x[top] < y[top]

BigMax(x, y) == IF BigLess(x, y) THEN y ELSE x

\* The estimator's two probabilities are kept as the naturals correct and
\* false over one positive denominator that is not stored: every use of them
\* is a comparison of the two, and lines 1875-1877 divide both by the same
\* normalizer.  Per column the factors common to both (the transition
\* denominator 100, the binomial coefficient, 5^64 / 100^64) are left out:
\*   correct <- max(99 correct, false) * 3^d * 17^(64 - d)
\*   false   <- max(correct, 99 false) * 10^64
\* st = [i, correct, false, correctFromCorrectBacktrace, falseFromCorrectBacktrace]
RECURSIVE viterbiForward(_, _)
viterbiForward(scores, st) ==
  IF st.i > Len(scores) THEN st
  ELSE
    LET scorediff == scores[st.i] - scores[st.i - 1]
        correct99 == BigTimes(st.correct, 99)
        false99 == BigTimes(st.false, 99)
        newCorrect == BigTimesPower(
                        [x |-> BigTimesPower([x |-> BigMax(correct99, st.false), e |-> scorediff], 3),
                         e |-> WordSize - scorediff], 17)
        newFalse == BigShift(BigMax(st.correct, false99), WordSize \div 4)
    IN viterbiForward(scores,
         [i |-> st.i + 1, correct |-> newCorrect, false |-> newFalse,
          correctFromCorrectBacktrace |->
            Append(st.correctFromCorrectBacktrace, ~BigLess(correct99, st.false)),
          falseFromCorrectBacktrace |->
            Append(st.falseFromCorrectBacktrace, ~BigLess(st.correct, false99))])

\* the loop of lines 1884-1895; st = [i, currentCorrect, result]
RECURSIVE viterbiBackward(_, _)
viterbiBackward(fwd, st) ==
  IF st.i = 0 THEN st.result
  ELSE viterbiBackward(fwd,
         [i |-> st.i - 1,
          currentCorrect |-> IF st.currentCorrect THEN fwd.correctFromCorrectBacktrace[st.i]
                             ELSE fwd.falseFromCorrectBacktrace[st.i],
          result |-> [st.result EXCEPT ![st.i] = st.currentCorrect]])

\* defined for score differences in 0 .. WordSize
estimateCorrectAlignmentViterbi(scores) ==
  LET fwd == viterbiForward(scores,
               [i |-> 2, correct |-> <<3>>, false |-> <<7>>,
                correctFromCorrectBacktrace |-> <<>>, falseFromCorrectBacktrace |-> <<>>])
  IN viterbiBackward(fwd,
       [i |-> Len(scores) - 1, currentCorrect |-> BigLess(fwd.false, fwd.correct),
        result |-> [k \in 1 .. (Len(scores) - 1) |-> FALSE]])

\* lines 256-286; st = [i, thisBlock, maxBlockSize, maxBlockEnd]
RECURSIVE largestBlockLoop(_, _)
largestBlockLoop(vec, st) ==
  IF st.i = Len(vec)
    THEN IF st.thisBlock > st.maxBlockSize
           THEN <<(Len(vec) - 1) - (st.thisBlock - 1), Len(vec) - 1>>
           ELSE <<st.maxBlockEnd - st.maxBlockSize, st.maxBlockEnd>>
  ELSE IF vec[st.i + 1]
    THEN largestBlockLoop(vec, [st EXCEPT !.i = st.i + 1, !.thisBlock = st.thisBlock + 1])
  ELSE IF st.thisBlock > st.maxBlockSize
    THEN largestBlockLoop(vec, [i |-> st.i + 1, thisBlock |-> 0,
                                maxBlockSize |-> st.thisBlock - 1, maxBlockEnd |-> st.i - 1])
  ELSE largestBlockLoop(vec, [st EXCEPT !.i = st.i + 1, !.thisBlock = 0])

getLargestContiguousBlock(vec) ==
  largestBlockLoop(vec, [i |-> 0, thisBlock |-> 0, maxBlockSize |-> 0, maxBlockEnd |-> 0])

(***************************************************************************)
(* Building the result (lines 412-523, 1799-1811).  A vg::Alignment is the  *)
(* record of the fields the aligner sets; a Mapping holds its rank, its     *)
(* Position and its edits.  AlignmentResult::elapsedMilliseconds is wall    *)
(* clock time and is left out.                                              *)
(***************************************************************************)
VgScoreMax == 2147483647

AlignmentResult(alignment, alignmentFailed, cellsProcessed) ==
  [alignment |-> alignment, alignmentFailed |-> alignmentFailed,
   cellsProcessed |-> cellsProcessed]

emptyAlignment(cellsProcessed) ==
  AlignmentResult([name |-> "", score |-> VgScoreMax, sequence |-> <<>>, path |-> <<>>],
                  TRUE, cellsProcessed)

\* std::string::substr
substr(str, pos, count) == SubSeq(str, pos + 1, Min(pos + count, Len(str)))

newMapping(rank, node, offset) ==
  [rank |-> rank,
   position |-> [node_id |-> graph.nodeIDs[node], is_reverse |-> graph.reverse[node],
                 offset |-> offset],
   edit |-> <<>>]

newEdit(seq, btNodeStart, btNodeEnd, extra) ==
  [from_length |-> btNodeEnd[1] - btNodeStart[1] + extra,
   to_length |-> btNodeEnd[2] - btNodeStart[2] + extra,
   sequence |-> substr(seq, btNodeStart[2], btNodeEnd[2] - btNodeStart[2] + extra)]

addEdit(path, edit) == [path EXCEPT ![Len(path)].edit = Append(@, edit)]

\* the loop of lines 473-480: the first trace index off the start sentinel,
\* Len(trace) if there is none
RECURSIVE skipDummyStart(_, _)
skipDummyStart(trace, pos) ==
  IF pos = Len(trace) \/ graph.indexToNode[trace[pos + 1][1]] # graph.dummyNodeStart
    THEN pos
  ELSE skipDummyStart(trace, pos + 1)

\* the loop of lines 492-517; st = [pos, oldNode, btNodeStart, btNodeEnd, rank, path]
RECURSIVE mappingLoop(_, _, _)
mappingLoop(seq, trace, st) ==
  IF st.pos = Len(trace) \/ graph.indexToNode[trace[st.pos + 1][1]] = graph.dummyNodeEnd
    THEN st
  ELSE IF graph.indexToNode[trace[st.pos + 1][1]] = st.oldNode
    THEN mappingLoop(seq, trace, [st EXCEPT !.pos = st.pos + 1,
                                            !.btNodeEnd = trace[st.pos + 1]])
  ELSE LET node == graph.indexToNode[trace[st.pos + 1][1]]
       IN mappingLoop(seq, trace,
            [pos |-> st.pos + 1, oldNode |-> node,
             btNodeStart |-> trace[st.pos + 1], btNodeEnd |-> trace[st.pos + 1],
             rank |-> st.rank + 1,
             path |-> Append(addEdit(st.path, newEdit(seq, st.btNodeStart, st.btNodeEnd, 1)),
                             newMapping(st.rank + 1, node, 0))])

traceToAlignment(seq_id, seq, score, trace, cellsProcessed) ==
  LET pos == skipDummyStart(trace, 0)
      oldNode == graph.indexToNode[trace[pos + 1][1]]
      st == mappingLoop(seq, trace,
              [pos |-> pos, oldNode |-> oldNode, btNodeStart |-> trace[pos + 1],
               btNodeEnd |-> trace[pos + 1], rank |-> 0,
               path |-> <<newMapping(0, oldNode, trace[pos + 1][1] - graph.nodeStart[oldNode])>>])
  IN IF Len(trace) = 0
       THEN AlignmentResult([name |-> seq_id, score |-> score, sequence |-> seq,
                             path |-> <<>>], TRUE, cellsProcessed)
     ELSE IF pos = Len(trace) THEN emptyAlignment(cellsProcessed)
     ELSE IF oldNode = graph.dummyNodeEnd THEN emptyAlignment(cellsProcessed)
     ELSE AlignmentResult(
            [name |-> seq_id, score |-> score, sequence |-> seq,
             path |-> addEdit(st.path, newEdit(seq, st.btNodeStart, st.btNodeEnd, 0))],
            FALSE, cellsProcessed)

\* the mappings of both, one after the other
appendAlignments(first, second) ==
  IF first.alignmentFailed THEN second
  ELSE IF second.alignmentFailed THEN first
  ELSE AlignmentResult(
         [first.alignment EXCEPT
            !.score = first.alignment.score + second.alignment.score,
            !.path = first.alignment.path \o second.alignment.path],
         FALSE, first.cellsProcessed + second.cellsProcessed)

posEqual(pos1, pos2) == pos1.node_id = pos2.node_id /\ pos1.is_reverse = pos2.is_reverse

mergeAlignments(first, second) ==
  IF first.alignmentFailed THEN second
  ELSE IF second.alignmentFailed THEN first
  ELSE LET firstEndPos == Back(first.alignment.path).position
           secondStartPos == second.alignment.path[1].position
           start == IF posEqual(firstEndPos, secondStartPos) THEN 1 ELSE 0
       IN AlignmentResult(
            [first.alignment EXCEPT
               !.score = first.alignment.score + second.alignment.score,
               !.path = first.alignment.path
                          \o SubSeq(second.alignment.path, start + 1,
                                    Len(second.alignment.path))],
            FALSE, first.cellsProcessed + second.cellsProcessed)

reverseTrace(trace) ==
  IF Len(trace) = 0 THEN trace
  ELSE LET secondMax == trace[Len(trace)][2]
       IN [k \in 1 .. Len(trace) |->
             <<GetReversePosition(trace[Len(trace) + 1 - k][1]),
               secondMax - trace[Len(trace) + 1 - k][2]>>]

(***************************************************************************)
(* The backtrace (lines 288-399): a 0-1 breadth-first search from the end   *)
(* position towards read row 0, one step per cell popped.                   *)
(***************************************************************************)
ExpandoCell(w, row, bt) == [position |-> <<w, row>>, backtraceIndex |-> bt]

padded(str) == str \o [k \in 1 .. ((WordSize - (Len(str) % WordSize)) % WordSize) |-> "N"]

\* the sequence, scores and indices the running call hands to
\* estimateCorrectnessAndBacktraceBiggestPart (lines 1953, 1921, 1923)
estimateArguments ==
  CASE call = "slice" ->
         [sequence |-> sequence, minScorePerWordSlice |-> result.minScorePerWordSlice,
          minScoreIndexPerWordSlice |-> result.minScoreIndexPerWordSlice]
    [] call = "backtraceresult" ->
         [sequence |-> padded(substr(readSequence, bestAlignment.sequenceSplitIndex,
                                     Len(readSequence))),
          minScorePerWordSlice |-> bestAlignment.scoresForward,
          minScoreIndexPerWordSlice |-> bestAlignment.minIndicesForward]
    [] OTHER ->
         [sequence |-> padded(ReverseComplement(
                                substr(readSequence, 0, bestAlignment.sequenceSplitIndex))),
          minScorePerWordSlice |-> bestAlignment.scoresBackward,
          minScoreIndexPerWordSlice |-> bestAlignment.minIndicesBackward]

\* the result of the running backtrace goes to the local named by call
setBacktraceResult(value) ==
  IF call = "reverseBacktraceResult"
    THEN reverseBacktraceResult' = value /\ UNCHANGED backtraceresult
    ELSE backtraceresult' = value /\ UNCHANGED reverseBacktraceResult

\* choose and powr (lines 1825-1848) are defined for these score differences
estimable(scores) ==
  \A i \in 2 .. Len(scores) : scores[i] - scores[i - 1] \in 0 .. WordSize

\* lines 288-308 and 320-327
Estimate ==
  /\ pc = "estimate"
  /\ LET arg == estimateArguments
         correctParts == estimateCorrectAlignmentViterbi(arg.minScorePerWordSlice)
         ends == getLargestContiguousBlock(correctParts)
         start == ends[1]
         end == ends[2]
         size == (end - start + 1) * WordSize
     IN IF ~estimable(arg.minScorePerWordSlice)
          THEN /\ pc' = "crashed"
               /\ UNCHANGED <<backtraceVars, backtraceresult, reverseBacktraceResult>>
        ELSE IF end = start
          THEN /\ setBacktraceResult([first |-> Len(arg.sequence), second |-> <<>>])
               /\ pc' = "backtraceDone"
               /\ UNCHANGED backtraceVars
        ELSE /\ newseq' = substr(arg.sequence, start * WordSize, size)
             /\ partials' = SubSeq(arg.minScorePerWordSlice, start + 1, end + 2)
             /\ scoreAtEnd' = arg.minScorePerWordSlice[end + 2]
             /\ currentDistance' = 0
             /\ visitedExpandos' = <<>>
             /\ currentDistanceQueue' =
                  <<ExpandoCell(arg.minScoreIndexPerWordSlice[end + 2], size, 0)>>
             /\ currentDistancePlusOneQueue' = <<>>
             /\ visitedCells' = {}
             /\ pc' = "backtrace"
             /\ UNCHANGED <<backtraceresult, reverseBacktraceResult>>
  /\ UNCHANGED <<alignmentResult, call, seedVars, failedAssert>>
  /\ UNCHANGED sweepVars
  /\ UNCHANGED fixedVars

\* every visited cell from the last to the second, whatever its backtraceIndex
traceOfEveryExpando(expandos, st) ==
  [k \in 1 .. st.index |-> expandos[st.index + 2 - k].position]

\* lines 390-397; st = [index, result]
RECURSIVE traceFrom(_, _)
traceFrom(expandos, st) ==
  IF st.index = 0 THEN st.result
  ELSE traceFrom(expandos, [index |-> expandos[st.index + 1].backtraceIndex,
                            result |-> Append(st.result, expandos[st.index + 1].position)])

\* every character taken for a match
matchesAlways(w, row) == TRUE

\* lines 365 and 378: sequence[j-1] == 'N' || graph.nodeSequences[w] == sequence[j-1]
matchesRead(w, row) == newseq[row] = "N" \/ nodeSequences(w) = newseq[row]

\* lines 355-386: what visiting cell (w, row), stored at backtraceIndexToCurrent,
\* appends to the two queues
expandCell(w, row, backtraceIndexToCurrent) ==
  LET nodeIndex == graph.indexToNode[w]
      match == matchesRead(w, row)
      us == IF w = graph.nodeStart[nodeIndex]
              THEN LET neighbors == SetToSeq(graph.inNeighbors[nodeIndex])
                   IN [k \in 1 .. Len(neighbors) |-> graph.nodeEnd[neighbors[k]] - 1]
              ELSE <<w - 1>>
  IN [currentDistanceQueue |->
        IF match THEN [k \in 1 .. Len(us) |-> ExpandoCell(us[k], row - 1, backtraceIndexToCurrent)]
        ELSE <<>>,
      currentDistancePlusOneQueue |->
        <<ExpandoCell(w, row - 1, backtraceIndexToCurrent)>>
          \o Flatten([k \in 1 .. Len(us) |->
                        <<ExpandoCell(us[k], row, backtraceIndexToCurrent)>>
                          \o (IF match THEN <<>>
                              ELSE <<ExpandoCell(us[k], row - 1, backtraceIndexToCurrent)>>)])]

\* One iteration of the loop of lines 329-387, and lines 389-398 when it breaks.
\* With both queues empty line 339 takes the last element of an empty vector.
\* st = [pc, currentDistance, visitedExpandos, currentDistanceQueue,
\*       currentDistancePlusOneQueue, visitedCells, failedAssert, result]
backtraceIteration(st) ==
  LET swap == st.currentDistanceQueue = <<>>
      queue == IF swap THEN st.currentDistancePlusOneQueue ELSE st.currentDistanceQueue
      plusOne == IF swap THEN <<>> ELSE st.currentDistancePlusOneQueue
      distance == IF swap THEN st.currentDistance + 1 ELSE st.currentDistance
      current == Back(queue)
      rest == SubSeq(queue, 1, Len(queue) - 1)
      w == current.position[1]
      row == current.position[2]
      sliceIndex == (row - 1) \div WordSize
      asserted == st.failedAssert
                    \cup (IF swap /\ st.currentDistancePlusOneQueue = <<>> THEN {333} ELSE {})
                    \cup (IF distance > scoreAtEnd THEN {337} ELSE {})
  IN IF queue = <<>>
       THEN [st EXCEPT !.pc = "crashed", !.currentDistance = distance,
                       !.failedAssert = asserted]
     ELSE IF row = 0
       THEN The({The({
              [st EXCEPT !.pc = "backtraceDone", !.currentDistance = distance,
                         !.visitedExpandos = found,
                         !.currentDistanceQueue = rest,
                         !.currentDistancePlusOneQueue = plusOne,
                         !.failedAssert = asserted \cup (IF trace = <<>> THEN {314} ELSE {}),
                         !.result = [first |-> distance, second |-> trace]] :
                trace \in {traceFrom(found, [index |-> Len(found) - 1, result |-> <<>>])}}) :
              found \in {Append(st.visitedExpandos, current)}})
     ELSE IF distance > scoreAtEnd - partials[sliceIndex + 1]
               \/ <<w, row>> \in st.visitedCells
       THEN [st EXCEPT !.currentDistance = distance,
                       !.currentDistanceQueue = rest,
                       !.currentDistancePlusOneQueue = plusOne,
                       !.failedAssert = asserted]
     ELSE The({
            [st EXCEPT !.currentDistance = distance,
                       !.visitedCells = {c \in st.visitedCells \cup {<<w, row>>} : TRUE},
                       !.visitedExpandos = Append(st.visitedExpandos, current),
                       !.currentDistanceQueue = rest \o pushed.currentDistanceQueue,
                       !.currentDistancePlusOneQueue =
                          plusOne \o pushed.currentDistancePlusOneQueue,
                       !.failedAssert = asserted] :
              pushed \in {expandCell(w, row, Len(st.visitedExpandos))}})

\* the iterations of the loop one step of the model takes
PopsPerStep == 64

\* at most n iterations of the loop, fewer when it breaks
RECURSIVE backtraceLoop(_, _)
backtraceLoop(st, n) ==
  IF n = 0 \/ st.pc # "backtrace" THEN st
  ELSE backtraceLoop(backtraceIteration(st), n - 1)

\* the loop of lines 329-387, and lines 389-398 when it breaks
BacktraceInner ==
  /\ pc = "backtrace"
  /\ \E st \in {backtraceLoop([pc |-> pc, currentDistance |-> currentDistance,
                                visitedExpandos |-> visitedExpandos,
                                currentDistanceQueue |-> currentDistanceQueue,
                                currentDistancePlusOneQueue |-> currentDistancePlusOneQueue,
                                visitedCells |-> visitedCells,
                                failedAssert |-> failedAssert, result |-> <<>>],
                               PopsPerStep)} :
       /\ pc' = st.pc
       /\ currentDistance' = st.currentDistance
       /\ visitedExpandos' = st.visitedExpandos
       /\ currentDistanceQueue' = st.currentDistanceQueue
       /\ currentDistancePlusOneQueue' = st.currentDistancePlusOneQueue
       /\ visitedCells' = st.visitedCells
       /\ failedAssert' = st.failedAssert
       /\ IF st.pc = "backtraceDone" THEN setBacktraceResult(st.result)
          ELSE UNCHANGED <<backtraceresult, reverseBacktraceResult>>
  /\ UNCHANGED <<newseq, partials, scoreAtEnd>>
  /\ UNCHANGED <<alignmentResult, call, seedVars>>
  /\ UNCHANGED sweepVars
  /\ UNCHANGED fixedVars

(***************************************************************************)
(* The full-band AlignOneWay (lines 175-190) and getBacktrace (1940-1962).  *)
(***************************************************************************)
\* ScoreType(size * 0.4)
scoreCeiling(size) == (size * 4) \div 10

\* score > size * 0.4
exceedsCeiling(score, size) == 10 * score > 4 * size

\* lines 179-180 and 1942-1947
AlignOneWay ==
  /\ pc = "start"
  /\ overload = "full"
  /\ SweepCall(padded(readSequence), getFullBand(Len(readSequence), dynamicRowStart),
               scoreCeiling(Len(padded(readSequence))))
  /\ call' = "slice"
  /\ UNCHANGED <<alignmentResult, seedVars, backtraceVars, backtraceresult,
                 reverseBacktraceResult, failedAssert>>
  /\ UNCHANGED fixedVars

\* lines 1948-1953, and line 184 when the sweep ended over the ceiling
GetBacktrace ==
  /\ pc = "sweepDone"
  /\ call = "slice"
  /\ IF exceedsCeiling(Back(result.minScorePerWordSlice), Len(sequence))
       THEN /\ alignmentResult' = emptyAlignment(result.cellsProcessed)
            /\ pc' = "returned"
       ELSE /\ pc' = "estimate"
            /\ UNCHANGED alignmentResult
  /\ UNCHANGED <<call, seedVars, backtraceVars, backtraceresult, reverseBacktraceResult,
                 failedAssert>>
  /\ UNCHANGED sweepVars
  /\ UNCHANGED fixedVars

\* the loops of lines 1926-1935 and 1955-1958
RECURSIVE peel(_, _)
peel(trace, limit) ==
  IF trace = <<>> \/ Back(trace)[2] < limit THEN trace
  ELSE peel(SubSeq(trace, 1, Len(trace) - 1), limit)

\* lines 1954-1961 and 184-189.  The loop of line 1955 takes the last element of
\* the trace without looking at its size: on a trace that is or becomes empty
\* the read is undefined, and the build either stops there or reads a value
\* that ends the loop.
GetBacktraceReturn ==
  /\ pc = "backtraceDone"
  /\ call = "slice"
  /\ LET FinalMinScore == Back(result.minScorePerWordSlice)
         limit == Len(readSequence)
         trace == peel(backtraceresult.second, limit)
     IN /\ failedAssert' = failedAssert
             \cup (IF backtraceresult.first > FinalMinScore THEN {1954} ELSE {})
             \cup (IF trace # <<>> /\ trace[1][2] # 0 THEN {1959} ELSE {})
             \cup (IF trace # <<>> /\ Back(trace)[2] # limit - 1 THEN {1960} ELSE {})
        /\ \E outcome \in IF trace = <<>> THEN {"stops", "reads"} ELSE {"defined"} :
             IF outcome = "stops"
               THEN pc' = "crashed" /\ UNCHANGED alignmentResult
               ELSE /\ pc' = "returned"
                    /\ alignmentResult' =
                         IF FinalMinScore = ScoreMax
                           THEN emptyAlignment(result.cellsProcessed)
                           ELSE traceToAlignment("read", readSequence, FinalMinScore, trace,
                                                 result.cellsProcessed)
  /\ UNCHANGED <<call, seedVars, backtraceVars, backtraceresult, reverseBacktraceResult>>
  /\ UNCHANGED sweepVars
  /\ UNCHANGED fixedVars

(***************************************************************************)
(* The seeded AlignOneWay (lines 192-241), getSplitAlignment (1720-1779)    *)
(* and getPiecewiseTracesFromSplit (1899-1938).                             *)
(***************************************************************************)
\* getSplitAlignment for seed hit number i (from 0): its parts, nodes and ceiling
splitCall(i) ==
  LET matchBigraphNodeId == seedHits[i + 1][1]
      matchSequencePosition == seedHits[i + 1][2]
  IN [backwardPart |->
        padded(ReverseComplement(substr(readSequence, 0, matchSequencePosition))),
      forwardPart |-> padded(substr(readSequence, matchSequencePosition, Len(readSequence))),
      forwardNode |-> graph.nodeLookup[matchBigraphNodeId * 2],
      backwardNode |-> graph.nodeLookup[matchBigraphNodeId * 2 + 1],
      sequenceSplitIndex |-> matchSequencePosition]

MinScore(split) == Back(split.scoresForward) + Back(split.scoresBackward)

MaxScore(split) ==
  Back(split.scoresForward) + Back(split.scoresBackward) + split.nodeSize
    + split.startExtensionWidth * 2

\* lines 1743-1744 for seed hit i
forwardSweep(i, ceiling) ==
  /\ SweepCall(splitCall(i).forwardPart,
               getExtendedNodeBand(splitCall(i).forwardNode, startBandwidth), ceiling)
  /\ call' = "forwardSlice"
  /\ slices' = <<>>

\* lines 194-203
AlignOneWaySeeded ==
  /\ pc = "start"
  /\ overload = "seeded"
  /\ seedIndex' = 0
  /\ hasAlignment' = FALSE
  /\ forwardSweep(0, scoreCeiling(Len(readSequence)))
  /\ UNCHANGED <<alignmentResult, bestAlignment, bestSeed, backtraceVars, backtraceresult,
                 reverseBacktraceResult, failedAssert>>
  /\ UNCHANGED fixedVars

\* lines 1745-1748: the sweep that follows the one that has returned
GetSplitAlignment ==
  /\ pc = "sweepDone"
  /\ call \in {"forwardSlice", "backwardSlice", "reverseForwardSlice"}
  /\ slices' = Append(slices, result)
  /\ LET parts == splitCall(seedIndex)
         backwardBand == getExtendedNodeBand(parts.backwardNode, startBandwidth)
         forwardBand == getExtendedNodeBand(parts.forwardNode, startBandwidth)
     IN CASE call = "forwardSlice" ->
               SweepCall(parts.backwardPart, backwardBand, maxScore)
               /\ call' = "backwardSlice"
          [] call = "backwardSlice" ->
               SweepCall(parts.forwardPart, backwardBand, maxScore)
               /\ call' = "reverseForwardSlice"
          [] OTHER ->
               SweepCall(parts.backwardPart, forwardBand, maxScore)
               /\ call' = "reverseBackwardSlice"
  /\ UNCHANGED <<alignmentResult, seedIndex, hasAlignment, bestAlignment, bestSeed,
                 backtraceVars, backtraceresult, reverseBacktraceResult, failedAssert>>
  /\ UNCHANGED fixedVars

\* the first orientation also when the two sums are equal
splitResultFirstOnTie(parts, forwardSlice, backwardSlice, reverseForwardSlice, reverseBackwardSlice) ==
  LET firstscore == Back(forwardSlice.minScorePerWordSlice)
                      + Back(backwardSlice.minScorePerWordSlice)
      secondscore == Back(reverseForwardSlice.minScorePerWordSlice)
                       + Back(reverseBackwardSlice.minScorePerWordSlice)
      forward == IF firstscore <= secondscore THEN forwardSlice ELSE reverseForwardSlice
      backward == IF firstscore <= secondscore THEN backwardSlice ELSE reverseBackwardSlice
  IN [sequenceSplitIndex |-> parts.sequenceSplitIndex,
      scoresForward |-> forward.minScorePerWordSlice,
      scoresBackward |-> backward.minScorePerWordSlice,
      minIndicesForward |-> forward.minScoreIndexPerWordSlice,
      minIndicesBackward |-> backward.minScoreIndexPerWordSlice,
      nodeSize |-> nodeLength(parts.forwardNode),
      startExtensionWidth |-> startBandwidth]

\* lines 1749-1778
splitResult(parts, forwardSlice, backwardSlice, reverseForwardSlice, reverseBackwardSlice) ==
  LET firstscore == Back(forwardSlice.minScorePerWordSlice)
                      + Back(backwardSlice.minScorePerWordSlice)
      secondscore == Back(reverseForwardSlice.minScorePerWordSlice)
                       + Back(reverseBackwardSlice.minScorePerWordSlice)
      forward == IF firstscore < secondscore THEN forwardSlice ELSE reverseForwardSlice
      backward == IF firstscore < secondscore THEN backwardSlice ELSE reverseBackwardSlice
  IN [sequenceSplitIndex |-> parts.sequenceSplitIndex,
      scoresForward |-> forward.minScorePerWordSlice,
      scoresBackward |-> backward.minScorePerWordSlice,
      minIndicesForward |-> forward.minScoreIndexPerWordSlice,
      minIndicesBackward |-> backward.minScoreIndexPerWordSlice,
      nodeSize |-> nodeLength(parts.forwardNode),
      startExtensionWidth |-> startBandwidth]

\* the last sweep of getSplitAlignment has returned: lines 1749-1778, the rest
\* of the loop body (204-218), and either the next seed hit (200-203) or the
\* end of the loop (223-227)
GetSplitAlignmentReturn ==
  /\ pc = "sweepDone"
  /\ call = "reverseBackwardSlice"
  /\ LET split == splitResult(splitCall(seedIndex), slices[1], slices[2], slices[3], result)
         skipped == exceedsCeiling(MinScore(split), Len(readSequence))
         better == ~skipped /\ (~hasAlignment \/ MinScore(split) < MinScore(bestAlignment))
         best == IF better THEN split ELSE bestAlignment
         has == hasAlignment \/ ~skipped
     IN /\ bestAlignment' = best
        /\ bestSeed' = IF better THEN seedHits[seedIndex + 1] ELSE bestSeed
        /\ hasAlignment' = has
        /\ failedAssert' = failedAssert
             \cup (IF Back(slices[1].minScorePerWordSlice) + Back(slices[2].minScorePerWordSlice)
                        > Len(splitCall(seedIndex).backwardPart)
                            + Len(splitCall(seedIndex).forwardPart)
                   THEN {1751} ELSE {})
             \cup (IF Back(slices[3].minScorePerWordSlice) + Back(result.minScorePerWordSlice)
                        > Len(splitCall(seedIndex).backwardPart)
                            + Len(splitCall(seedIndex).forwardPart)
                   THEN {1752} ELSE {})
        /\ IF seedIndex + 1 < Len(seedHits)
             THEN /\ seedIndex' = seedIndex + 1
                  /\ forwardSweep(seedIndex + 1,
                                  IF has THEN MaxScore(best)
                                  ELSE scoreCeiling(Len(readSequence)))
                  /\ UNCHANGED alignmentResult
           ELSE IF ~has
             THEN /\ alignmentResult' = emptyAlignment(0)
                  /\ pc' = "returned"
                  /\ UNCHANGED <<seedIndex, call, slices>>
                  /\ UNCHANGED sweepVars
           ELSE /\ call' = "backtraceresult"
                /\ pc' = "estimate"
                /\ UNCHANGED <<seedIndex, slices, alignmentResult>>
                /\ UNCHANGED sweepVars
  /\ UNCHANGED <<backtraceVars, backtraceresult, reverseBacktraceResult>>
  /\ UNCHANGED fixedVars

\* line 1921 has returned
GetPiecewiseTracesFromSplit ==
  /\ pc = "backtraceDone"
  /\ call = "backtraceresult"
  /\ call' = "reverseBacktraceResult"
  /\ pc' = "estimate"
  /\ UNCHANGED <<alignmentResult, seedVars, backtraceVars, backtraceresult,
                 reverseBacktraceResult, failedAssert>>
  /\ UNCHANGED sweepVars
  /\ UNCHANGED fixedVars

\* line 1923 has returned: lines 1926-1937 and 229-240
AlignOneWaySeededReturn ==
  /\ pc = "backtraceDone"
  /\ call = "reverseBacktraceResult"
  /\ LET split == bestAlignment.sequenceSplitIndex
         forwardTrace == peel(backtraceresult.second, Len(readSequence) - split)
         backwardTrace == peel(reverseBacktraceResult.second, split)
         fwresult == traceToAlignment("read", readSequence, backtraceresult.first,
                                      forwardTrace, 0)
         bwresult == traceToAlignment("read", readSequence, reverseBacktraceResult.first,
                                      reverseTrace(backwardTrace), 0)
     IN alignmentResult' = IF fwresult.alignmentFailed /\ bwresult.alignmentFailed
                             THEN emptyAlignment(0)
                             ELSE mergeAlignments(bwresult, fwresult)
  /\ pc' = "returned"
  /\ UNCHANGED <<call, seedVars, backtraceVars, backtraceresult, reverseBacktraceResult,
                 failedAssert>>
  /\ UNCHANGED sweepVars
  /\ UNCHANGED fixedVars

(***************************************************************************)
(* The calls the aligner is run on.                                         *)
(***************************************************************************)
\* a substitution at each of the given positions (from 0) of the read
mutate(str, positions) ==
  [k \in 1 .. Len(str) |->
     IF (k - 1) \in positions
       THEN Base[((CHOOSE b \in 1 .. 4 : Base[b] = str[k]) % 4) + 1]
       ELSE str[k]]

fullBandInput(g, read, width) ==
  [graph |-> g, readSequence |-> read, overload |-> "full", seedHits |-> <<>>,
   startBandwidth |-> 0, dynamicWidth |-> width, dynamicRowStart |-> WordSize]

seededInput(g, read, width, seeds, extension) ==
  [graph |-> g, readSequence |-> read, overload |-> "seeded", seedHits |-> seeds,
   startBandwidth |-> extension, dynamicWidth |-> width, dynamicRowStart |-> WordSize]

Inputs ==
  << \* a read of one slice that spells a part of the chain
     fullBandInput(ChainGraph, chainPart(10, 50), 4),
     \* reads of two slices that spell a part of the chain
     fullBandInput(ChainGraph, chainPart(10, 75), 4),
     \* a read of two slices whose first slice ends on the first character of the
     \* third node
     fullBandInput(ChainGraph, chainPart(37, 102), 4),
     \* a read of two slices that leaves out one character of the chain
     fullBandInput(ChainGraph, chainPart(10, 40) \o chainPart(41, 76), 4),
     \* a read of three slices: two that spell a part of the chain, and a tail that
     \* is nowhere in the graph
     fullBandInput(ChainGraph, chainPart(5, 133) \o [k \in 1 .. 30 |-> "T"], 4),
     \* the read that spells the whole of the linear chain
     fullBandInput(LinearGraph, chainPart(0, LinearNodes * LinearNodeLength), 4),
     \* a read of two slices that goes on after the end of the linear chain
     fullBandInput(LinearGraph,
                   chainPart(0, LinearNodes * LinearNodeLength) \o chainPart(8, 38), 8),
     \* a read that is nowhere in the graph
     fullBandInput(ChainGraph, [k \in 1 .. 129 |-> "T"], 4),
     \* a read with a substitution at every fourth character of its first slice
     fullBandInput(ChainGraph, mutate(chainPart(27, 92), {q \in 0 .. 63 : q % 4 = 1}), 12),
     \* walks around the cycle
     fullBandInput(CycleGraph, SubSeq(repeat(CycleNodeA \o CycleNodeB, 5), 4, 73), 4),
     \* CycleRounds walks around the whole cycle
     fullBandInput(CycleGraph, repeat(CycleNodeA \o CycleNodeB, CycleRounds), 4),
     \* a walk around the cycle whose two nodes are both feedback nodes
     fullBandInput(TwoCutGraph, SubSeq(repeat(CycleNodeA \o CycleNodeB, 5), 4, 43), 4),
     \* a read of two slices around the cycle whose last character is the first
     \* character of a node
     fullBandInput(CycleGraph, SubSeq(repeat(CycleNodeA \o CycleNodeB, 9), 2, 129), 4),
     \* through one side of the diamond
     fullBandInput(DiamondGraph, <<"A", "G">>, 4),
     \* seed hits on the first node of the chain
     seededInput(ChainGraph, chainPart(5, 75), 4, << <<1, 4>>, <<1, 30>> >>,
                 FirstNodeLength),
     \* a seed hit in a read of one slice
     seededInput(ChainGraph, chainPart(10, 50), 4, << <<1, 4>> >>, FirstNodeLength),
     \* a seed hit in a read that is nowhere in the graph
     seededInput(ChainGraph, [k \in 1 .. 70 |-> "T"], 4, << <<1, 4>> >>, 0),
     \* a seed hit on a node that is its own reverse complement
     seededInput(PalindromeGraph, repeat(<<"A", "C", "G", "T">>, 6), 4, << <<1, 8>> >>, 0),
     \* a seed hit on the second node, in a read with an N in the last row of the
     \* first slice of its forward part
     seededInput(ChainGraph, [chainPart(30, 104) EXCEPT ![71] = "N"], 4, << <<2, 7>> >>, 0) >>

vars == <<pc, fixedVars, sweepVars, callerVars>>

\* no call has been made
Constructed ==
  /\ alignmentResult = <<>>
  /\ call = ""
  /\ seedIndex = 0
  /\ hasAlignment = FALSE
  /\ bestAlignment = <<>>
  /\ bestSeed = <<>>
  /\ slices = <<>>
  /\ newseq = <<>>
  /\ partials = <<>>
  /\ scoreAtEnd = 0
  /\ currentDistance = 0
  /\ visitedExpandos = <<>>
  /\ currentDistanceQueue = <<>>
  /\ currentDistancePlusOneQueue = <<>>
  /\ visitedCells = {}
  /\ backtraceresult = <<>>
  /\ reverseBacktraceResult = <<>>
  /\ failedAssert = {}
  /\ sequence = <<>>
  /\ startBand = <<>>
  /\ maxScore = 0
  /\ j = 0
  /\ currentBand = <<>>
  /\ previousBand = <<>>
  /\ bandOrder = {}
  /\ bandOrderOutOfOrder = {}
  /\ previousBandOrder = {}
  /\ previousBandOrderOutOfOrder = {}
  /\ currentSlice = <<>>
  /\ previousSlice = <<>>
  /\ currentMinimumScore = ScoreMax
  /\ currentMinimumIndex = LengthMax
  /\ previousMinimumIndex = LengthMax
  /\ result = [minScorePerWordSlice |-> <<>>, minScoreIndexPerWordSlice |-> <<>>,
               cellsProcessed |-> 0]
  /\ correctEndValues = <<>>
  /\ cutState = <<>>
  /\ pending = <<>>
  /\ returned = {}
  /\ evaluated = 0
  /\ lowered = <<>>
  /\ calculated = <<>>

\* the aligner is constructed on a graph and AlignOneWay is called
Init ==
  /\ \E input \in {Inputs[k] : k \in 1 .. Len(Inputs)} :
       /\ graph = input.graph
       /\ readSequence = input.readSequence
       /\ overload = input.overload
       /\ seedHits = input.seedHits
       /\ startBandwidth = input.startBandwidth
       /\ dynamicWidth = input.dynamicWidth
       /\ dynamicRowStart = input.dynamicRowStart
  /\ pc = "start"
  /\ Constructed
  /\ leftSlice = <<>>
  /\ rightSlice = <<>>
  /\ merged = <<>>
  /\ correctValue = <<>>
  /\ candidates = <<>>
  /\ neighborsFound = 0
  /\ smallerMasks = <<>>
  /\ firstHalf = <<>>
  /\ secondHalf = <<>>

Next ==
  \/ AlignOneWay
  \/ AlignOneWaySeeded
  \/ BeginColumn
  \/ CutCyclesBegin
  \/ CutCyclesRoot
  \/ CutCyclesIndex
  \/ CalculateInOrder
  \/ CalculateOutOfOrder
  \/ EndColumn
  \/ GetBacktrace
  \/ GetSplitAlignment
  \/ GetSplitAlignmentReturn
  \/ Estimate
  \/ BacktraceInner
  \/ GetBacktraceReturn
  \/ GetPiecewiseTracesFromSplit
  \/ AlignOneWaySeededReturn

Spec == Init /\ [][Next]_vars

(***************************************************************************)
(* mergeTwoSlices on its own: the merge of two slices next to the merge row *)
(* by row of mergeTwoSlicesCellByCell (the EXTRAASSERTIONS build, lines      *)
(* 914-916 and 944-949).                                                    *)
(***************************************************************************)
MergeMasks == {AllZeros, AllOnes, One, Mask55, Not(Mask55), 0 .. (ChunkBits - 1)}

MergeScores == {0, 1, 2 * WordSize}

MergeSlices ==
  {WordSlice(m[1], m[2], before + Cardinality(m[1]) - Cardinality(m[2]), before) :
     m \in {n \in MergeMasks \X MergeMasks : And(n[1], n[2]) = AllZeros},
     before \in MergeScores}

MergeInit ==
  /\ \E a \in MergeSlices, b \in MergeSlices : leftSlice = a /\ rightSlice = b
  /\ merged = <<>>
  /\ correctValue = <<>>
  /\ candidates = <<>>
  /\ neighborsFound = 0
  /\ smallerMasks = <<>>
  /\ firstHalf = <<>>
  /\ secondHalf = <<>>
  /\ pc = "merge"
  /\ graph = DiamondGraph
  /\ readSequence = <<>>
  /\ overload = ""
  /\ seedHits = <<>>
  /\ startBandwidth = 0
  /\ dynamicWidth = 0
  /\ dynamicRowStart = WordSize
  /\ Constructed

MergeTwoSlices ==
  /\ pc = "merge"
  /\ merged' = mergeTwoSlices(leftSlice, rightSlice)
  /\ correctValue' = mergeTwoSlicesCellByCell(leftSlice, rightSlice)
  /\ pc' = "merged"
  /\ UNCHANGED <<leftSlice, rightSlice, candidates, neighborsFound, smallerMasks,
                 inputVars, sweepVars, callerVars, halfVars>>

MergeNext == MergeTwoSlices

SpecMerge == MergeInit /\ [][MergeNext]_vars

(***************************************************************************)
(* The loop of getNodeStartSlice over the in-neighbours of a node (lines    *)
(* 997-1037) on its own: previous takes the first neighbour's slice and is  *)
(* merged with the slice of each further neighbour.                         *)
(***************************************************************************)
InNeighbors == 3

FoldMasks == {<<AllZeros, AllZeros>>, <<AllOnes, AllZeros>>, <<AllZeros, AllOnes>>,
              <<Mask55, Not(Mask55)>>, <<0 .. (ChunkBits - 1), AllZeros>>}

FoldScores == {0, 1}

FoldSlices ==
  {WordSlice(m[1], m[2], before + Cardinality(m[1]) - Cardinality(m[2]), before) :
     m \in FoldMasks, before \in FoldScores}

FoldInit ==
  /\ candidates \in [1 .. InNeighbors -> FoldSlices]
  /\ neighborsFound = 0
  /\ smallerMasks = <<>>
  /\ firstHalf = <<>>
  /\ secondHalf = <<>>
  /\ leftSlice = <<>>
  /\ rightSlice = <<>>
  /\ merged = <<>>
  /\ correctValue = <<>>
  /\ pc = "inNeighbors"
  /\ graph = DiamondGraph
  /\ readSequence = <<>>
  /\ overload = ""
  /\ seedHits = <<>>
  /\ startBandwidth = 0
  /\ dynamicWidth = 0
  /\ dynamicRowStart = WordSize
  /\ Constructed

\* lines 1026-1030: the first neighbour in the band
FoundOne ==
  /\ pc = "inNeighbors"
  /\ neighborsFound = 0
  /\ merged' = candidates[1]
  /\ neighborsFound' = 1
  /\ UNCHANGED <<pc, leftSlice, rightSlice, correctValue, candidates, smallerMasks,
                 inputVars, sweepVars, callerVars, halfVars>>

\* lines 1031-1035: a further neighbour in the band
MergeCompetitor ==
  /\ pc = "inNeighbors"
  /\ neighborsFound >= 1
  /\ neighborsFound < Len(candidates)
  /\ leftSlice' = merged
  /\ rightSlice' = candidates[neighborsFound + 1]
  /\ merged' = mergeTwoSlices(merged, candidates[neighborsFound + 1])
  /\ correctValue' = mergeTwoSlicesCellByCell(merged, candidates[neighborsFound + 1])
  /\ neighborsFound' = neighborsFound + 1
  /\ UNCHANGED <<pc, candidates, smallerMasks, inputVars, sweepVars, callerVars,
                 halfVars>>

FoldNext == FoundOne \/ MergeCompetitor

SpecFold == FoldInit /\ [][FoldNext]_vars

(***************************************************************************)
(* mergeAlignments on its own (lines 424-460), on the results                *)
(* traceToAlignment can give for traces on the chain: the mappings of a     *)
(* path are on nodes that follow each other in the graph.                   *)
(***************************************************************************)
MaxMappings == 3
HalfScores == {0, 2}

\* the paths that start on node n and have at most the given number of mappings
RECURSIVE walksFrom(_, _)
walksFrom(n, mappings) ==
  IF mappings = 1 THEN {<<n>>}
  ELSE {<<n>>} \cup {<<n>> \o walk : walk \in UNION {walksFrom(m, mappings - 1) :
                                                     m \in graph.outNeighbors[n]}}

\* what traceToAlignment gives for a trace that runs through the nodes of walk
halfAlignment(walk, score) ==
  AlignmentResult(
    [name |-> "read", score |-> score, sequence |-> <<>>,
     path |-> [k \in 1 .. Len(walk) |->
                 [newMapping(k - 1, walk[k], 0) EXCEPT
                    !.edit = << [from_length |-> nodeLength(walk[k]),
                                 to_length |-> nodeLength(walk[k]),
                                 sequence |-> <<>>] >>]]],
    FALSE, 0)

HalfAlignments ==
  {emptyAlignment(0)}
    \cup {halfAlignment(walk, score) :
            walk \in UNION {walksFrom(n, MaxMappings) :
                            n \in DOMAIN graph.nodeStart
                                   \ {graph.dummyNodeStart, graph.dummyNodeEnd}},
            score \in HalfScores}

MergeAlignmentsInit ==
  /\ graph = ChainGraph
  /\ firstHalf \in HalfAlignments
  /\ secondHalf \in HalfAlignments
  \* line 426
  /\ ~firstHalf.alignmentFailed \/ ~secondHalf.alignmentFailed
  /\ pc = "mergeAlignments"
  /\ leftSlice = <<>>
  /\ rightSlice = <<>>
  /\ merged = <<>>
  /\ correctValue = <<>>
  /\ candidates = <<>>
  /\ neighborsFound = 0
  /\ smallerMasks = <<>>
  /\ readSequence = <<>>
  /\ overload = ""
  /\ seedHits = <<>>
  /\ startBandwidth = 0
  /\ dynamicWidth = 0
  /\ dynamicRowStart = WordSize
  /\ Constructed

MergeAlignments ==
  /\ pc = "mergeAlignments"
  /\ alignmentResult' = mergeAlignments(firstHalf, secondHalf)
  /\ pc' = "mergeAlignmentsDone"
  /\ UNCHANGED <<call, seedVars, backtraceVars, backtraceresult, reverseBacktraceResult,
                 failedAssert>>
  /\ UNCHANGED sweepVars
  /\ UNCHANGED fixedVars

MergeAlignmentsNext == MergeAlignments

SpecMergeAlignments == MergeAlignmentsInit /\ [][MergeAlignmentsNext]_vars

(***************************************************************************)
(* differenceMasks on its own, called as mergeTwoSlices calls it (line 921) *)
(* with the slice of the smaller scoreBeforeStart on the left, next to      *)
(* differenceMasksCellByCell (the EXTRAASSERTIONS build, line 807).         *)
(***************************************************************************)
LowRows == 5

DifferenceWords == {AllZeros, AllOnes, Mask55, Not(Mask55),
                    0 .. (LowRows - 1), LowRows .. (WordSize - 1),
                    0 .. (ChunkBits - 1), ChunkBits .. (WordSize - 1),
                    0 .. (WordSize \div 2 - 1), (WordSize \div 2) .. (WordSize - 1)}

DifferencePairs == {n \in DifferenceWords \X DifferenceWords : And(n[1], n[2]) = AllZeros}

ScoreDifferences == {0, 1, WordSize, 2 * WordSize - 2 * ChunkBits, 2 * WordSize - 2 * LowRows,
                     2 * WordSize - 1, 2 * WordSize, 2 * WordSize + 1}

DifferenceInit ==
  /\ \E l \in DifferencePairs, r \in DifferencePairs, scoreDifference \in ScoreDifferences :
       /\ leftSlice = WordSlice(l[1], l[2], Cardinality(l[1]) - Cardinality(l[2]), 0)
       /\ rightSlice = WordSlice(r[1], r[2],
                                 scoreDifference + Cardinality(r[1]) - Cardinality(r[2]),
                                 scoreDifference)
  /\ merged = <<>>
  /\ correctValue = <<>>
  /\ candidates = <<>>
  /\ neighborsFound = 0
  /\ smallerMasks = <<>>
  /\ firstHalf = <<>>
  /\ secondHalf = <<>>
  /\ pc = "differenceMasks"
  /\ graph = DiamondGraph
  /\ readSequence = <<>>
  /\ overload = ""
  /\ seedHits = <<>>
  /\ startBandwidth = 0
  /\ dynamicWidth = 0
  /\ dynamicRowStart = WordSize
  /\ Constructed

DifferenceMasks ==
  /\ pc = "differenceMasks"
  /\ smallerMasks' = differenceMasks(leftSlice.VP, leftSlice.VN, rightSlice.VP, rightSlice.VN,
                                     rightSlice.scoreBeforeStart - leftSlice.scoreBeforeStart)
  /\ correctValue' = differenceMasksCellByCell(leftSlice.VP, leftSlice.VN,
                                               rightSlice.VP, rightSlice.VN,
                                               rightSlice.scoreBeforeStart
                                                 - leftSlice.scoreBeforeStart)
  /\ pc' = "differenceMasksDone"
  /\ UNCHANGED <<leftSlice, rightSlice, merged, candidates, neighborsFound,
                 inputVars, sweepVars, callerVars, halfVars>>

DifferenceNext == DifferenceMasks

SpecDifference == DifferenceInit /\ [][DifferenceNext]_vars

(***************************************************************************)
(* Properties.                                                              *)
(***************************************************************************)
\* the DP value a slice implies at row r of its column, r = -1 being the row
\* before the slice
RowScore(slice, r) ==
  slice.scoreBeforeStart + Cardinality({i \in slice.VP : i <= r})
    - Cardinality({i \in slice.VN : i <= r})

\* the cells of the column the sweep evaluates
ColumnCells ==
  UNION {{currentSlice[n][w] : w \in 1 .. Len(currentSlice[n])} : n \in DOMAIN currentSlice}

\* the cells of the column before
PreviousCells ==
  UNION {{previousSlice[n][w] : w \in 1 .. Len(previousSlice[n])} : n \in DOMAIN previousSlice}

\* C1: every WordSlice the column sweep stores (the result of getNextSlice, of
\* mergeTwoSlices, a source slice, or a slice cutCycles puts back) has no bit
\* set in both VP and VN.
C1_StoredSlicesDisjoint ==
  \A s \in ColumnCells \cup PreviousCells \cup returned : And(s.VP, s.VN) = AllZeros

\* the step stored a slice it calculated, with bits set in VP and in VN, in a
\* column evaluated after cutCycles put slices back
C1_Witness ==
  /\ pc \in {"inOrder", "outOfOrder", "columnEnd"}
  /\ graph.firstInOrder # 0
  /\ \E s \in returned \cap ColumnCells : s.VP # AllZeros /\ s.VN # AllZeros

\* C2: for every slice getNextSlice or mergeTwoSlices returned and every slice
\* calculateNode stored, scoreEnd is scoreBeforeStart plus the number of bits
\* set in VP minus the number of bits set in VN.
C2_ScoreEndIsColumnSum ==
  \A s \in ColumnCells \cup PreviousCells \cup returned :
     s.scoreEnd = s.scoreBeforeStart + Cardinality(s.VP) - Cardinality(s.VN)

\* the step returned a slice whose last row is below its first row
C2_Witness ==
  \E s \in returned :
     /\ s.scoreEnd < s.scoreBeforeStart
     /\ s.VP # AllZeros
     /\ WordSize - 1 \in s.VN

\* C3: when the sweep has returned, minScorePerWordSlice never decreases from
\* one entry to the next, also after columns whose minimum the out-neighbour
\* probe lowered and in the entries of the columns that were not evaluated.
C3_MinimaNonDecreasing ==
  pc = "sweepDone" =>
    \A i \in 2 .. Len(result.minScorePerWordSlice) :
       result.minScorePerWordSlice[i] >= result.minScorePerWordSlice[i - 1]

\* a sweep of more than one column returned after the probe lowered a minimum
C3_Witness ==
  /\ pc = "sweepDone"
  /\ Len(result.minScorePerWordSlice) > 2
  /\ \E i \in 1 .. Len(lowered) : lowered[i]

\* the smallest scoreEnd of the cells of the column the sweep evaluates
BandMinimum == CHOOSE m \in {s.scoreEnd : s \in ColumnCells} : \A s \in ColumnCells : m <= s.scoreEnd

\* the cell of the column at graph position p
CellAt(p) == currentSlice[graph.indexToNode[p]][p - graph.nodeStart[graph.indexToNode[p]] + 1]

\* does graph position p lie on a node of the column
InColumn(p) == p \in DOMAIN graph.indexToNode /\ graph.indexToNode[p] \in DOMAIN currentSlice

\* C4: the minimum an evaluated column records is the smallest scoreEnd of the
\* cells of its band, and the index it records is a position whose cell has
\* that scoreEnd.
C4_RecordedIsBandMinimum ==
  pc = "columnEnd" =>
    /\ currentMinimumScore = BandMinimum
    /\ InColumn(currentMinimumIndex)
    /\ CellAt(currentMinimumIndex).scoreEnd = currentMinimumScore

\* C5: when the minimum of a column exceeds maxScore the sweep evaluates no
\* further column and appends the pair (length of the padded read, 0) for every
\* column it did not evaluate; on every return the two vectors have one entry
\* for the start and one for each slice of the padded read.
C5_SentinelFill ==
  pc = "sweepDone" =>
    LET K == Len(sequence) \div WordSize
        scores == result.minScorePerWordSlice
        indices == result.minScoreIndexPerWordSlice
    IN /\ Len(scores) = K + 1
       /\ Len(indices) = K + 1
       /\ evaluated <= K
       /\ \A s \in 1 .. (evaluated - 1) : scores[s + 1] <= maxScore
       /\ evaluated < K => scores[evaluated + 1] > maxScore
       /\ \A s \in (evaluated + 1) .. K : scores[s + 1] = Len(sequence) /\ indices[s + 1] = 0

\* a sweep ended over the ceiling with a column left to evaluate
C5_Witness ==
  /\ pc = "sweepDone"
  /\ evaluated >= 1
  /\ evaluated < Len(sequence) \div WordSize
  /\ Back(result.minScorePerWordSlice) = Len(sequence)
  /\ Back(result.minScoreIndexPerWordSlice) = 0

\* C6: a result AlignOneWay returns as failed has the largest score and a path
\* without mappings; a result it returns as not failed has a mapping.
C6_FailedMeansEmpty ==
  pc = "returned" =>
    IF alignmentResult.alignmentFailed
      THEN alignmentResult.alignment.score = VgScoreMax /\ alignmentResult.alignment.path = <<>>
      ELSE Len(alignmentResult.alignment.path) >= 1

\* C7: the full-band AlignOneWay returns a failed result of the largest score
\* whenever the last minimum of the sweep is above 0.4 of the length of the
\* read the caller gave.
C7_CeilingOfTheRead ==
  (/\ pc = "returned"
   /\ overload = "full"
   /\ exceedsCeiling(Back(result.minScorePerWordSlice), Len(readSequence)))
    => /\ alignmentResult.alignmentFailed
       /\ alignmentResult.alignment.score = VgScoreMax

\* the backtrace of the running call gave no position
EmptyTrace ==
  IF overload = "full"
    THEN backtraceresult # <<>> /\ backtraceresult.second = <<>>
    ELSE /\ backtraceresult # <<>> /\ backtraceresult.second = <<>>
         /\ reverseBacktraceResult # <<>> /\ reverseBacktraceResult.second = <<>>

\* C8: when the backtrace gives an empty trace, AlignOneWay returns a failed
\* result, and on the way it neither reads an element of the empty trace nor
\* breaks an assertion.
C8_EmptyTraceFails ==
  (pc \in {"returned", "crashed"} /\ EmptyTrace)
    => /\ pc = "returned"
       /\ alignmentResult.alignmentFailed
       /\ failedAssert = {}

\* C9: for two valid slices, mergeTwoSlices gives the VP, VN, scoreBeforeStart
\* and scoreEnd of mergeTwoSlicesCellByCell, and the result implies at the row
\* before the slice and at each of its rows the smaller of the two operands'
\* DP values.
C9_MergeIsRowMinimum ==
  pc = "merged" =>
    /\ merged = correctValue
    /\ \A r \in -1 .. (WordSize - 1) :
         RowScore(merged, r) = Min(RowScore(leftSlice, r), RowScore(rightSlice, r))

\* a merge that takes rows from both operands, which start at different scores
C9_Witness ==
  /\ pc = "merged"
  /\ merged.VP # leftSlice.VP
  /\ merged.VP # rightSlice.VP
  /\ leftSlice.scoreBeforeStart # rightSlice.scoreBeforeStart
  /\ \E r \in Bits : RowScore(leftSlice, r) < RowScore(rightSlice, r)
  /\ \E r \in Bits : RowScore(rightSlice, r) < RowScore(leftSlice, r)

\* C10: merging a valid slice with itself gives the slice back, field by field.
C10_MergeIdempotent ==
  pc = "merged" /\ leftSlice = rightSlice => merged = leftSlice

\* a slice with every VN bit set has been merged with itself
C10_Witness ==
  /\ pc = "merged"
  /\ leftSlice = rightSlice
  /\ leftSlice.VN = AllOnes
  /\ merged.VN = AllOnes

\* the merge of candidates a, b and c taken in this order, previous first
FoldOf(a, b, c) == mergeTwoSlices(mergeTwoSlices(candidates[a], candidates[b]), candidates[c])

\* C11: the slice the loop over the in-neighbours holds does not depend on the
\* order of the neighbours: merging two slices gives the same VP, VN,
\* scoreBeforeStart and scoreEnd with the operands exchanged, and merging three
\* gives the same with the operands in any order and with the second merge
\* done first, also when rows of the operands tie.
C11_MergeOrderIndependent ==
  pc = "inNeighbors" =>
    /\ neighborsFound = 2 => merged = mergeTwoSlices(candidates[2], candidates[1])
    /\ neighborsFound = 3 =>
         /\ \A a, b, c \in 1 .. 3 :
              Cardinality({a, b, c}) = 3 => FoldOf(a, b, c) = merged
         /\ merged = mergeTwoSlices(candidates[1],
                                    mergeTwoSlices(candidates[2], candidates[3]))

\* three different slices have been merged, two of which tie at a row where
\* the third is larger, and the result is none of the three
C11_Witness ==
  /\ pc = "inNeighbors"
  /\ neighborsFound = 3
  /\ Cardinality({candidates[k] : k \in 1 .. 3}) = 3
  /\ merged \notin {candidates[k] : k \in 1 .. 3}
  /\ \E r \in Bits :
       /\ RowScore(candidates[1], r) = RowScore(candidates[2], r)
       /\ RowScore(candidates[1], r) < RowScore(candidates[3], r)

\* C12: for operands with no bit in both VP and VN and a score difference of 0
\* or more, differenceMasks returns the pair differenceMasksCellByCell computes
\* row by row: the rows where the left running score is strictly smaller and
\* the rows where the right one is, in the three cases it answers at once and
\* where the difference in a byte lane reaches -128.
C12_DifferenceMasksRowByRow ==
  pc = "differenceMasksDone" =>
    /\ smallerMasks = correctValue
    /\ smallerMasks[1] = {r \in Bits : RowScore(leftSlice, r) < RowScore(rightSlice, r)}
    /\ smallerMasks[2] = {r \in Bits : RowScore(rightSlice, r) < RowScore(leftSlice, r)}

\* the masks of two operands whose difference reaches -128 at a row inside a
\* byte lane, with a score difference the lanes are computed for
C12_Witness ==
  /\ pc = "differenceMasksDone"
  /\ rightSlice.scoreBeforeStart < 2 * WordSize
  /\ rightSlice.scoreBeforeStart <= Cardinality(leftSlice.VP) + Cardinality(rightSlice.VN)
  /\ RowScore(leftSlice, LowRows - 1) - RowScore(rightSlice, LowRows - 1) = 0 - 2 * WordSize
  /\ smallerMasks = <<AllOnes, AllZeros>>

\* the slice getWordSliceCellByCell gives for cell w of the node calculated in
\* the last step (lines 1217 and 1297)
correctslice(w) ==
  IF w = 1 THEN calculated.correctstart
  ELSE getWordSliceCellByCell(j, graph.nodeStart[calculated.node] + w - 1, sequence,
                              [currentSlice EXCEPT ![calculated.node] = calculated.slice],
                              previousSlice, currentBand, previousBand)

\* C13: every cell calculateNode computes with forceSource false has the VP,
\* VN, scoreBeforeStart and scoreEnd getWordSliceCellByCell gives for it on the
\* same band state, for reads over the IUPAC alphabet, also with an N in the
\* read row before the slice.
C13_CellsAsCellByCell ==
  calculated # <<>> =>
    \A w \in 1 .. Len(calculated.slice) : calculated.slice[w] = correctslice(w)

\* the traces the backtraces of the running call have returned
ReturnedTraces ==
  {t.second : t \in {backtraceresult, reverseBacktraceResult} \ {<<>>}}

\* a step of a trace from position a to position b, each a pair of a graph
\* position and a read row
TraceStep(a, b) ==
  /\ b[2] - a[2] \in {0, 1}
  /\ \/ b[1] = a[1]
     \/ b[1] = a[1] + 1 /\ graph.indexToNode[b[1]] = graph.indexToNode[a[1]]
     \/ /\ b[1] = graph.nodeStart[graph.indexToNode[b[1]]]
        /\ \E neighbor \in graph.inNeighbors[graph.indexToNode[b[1]]] :
             a[1] = graph.nodeEnd[neighbor] - 1

\* C14: in every trace backtraceInner returns, from each position to the next
\* the read row stays or grows by one, and the graph position stays, or moves
\* to the next character of the same node, or moves from the last character of
\* an in-neighbour to the first character of a node.
C14_TraceSteps ==
  \A trace \in ReturnedTraces :
    \A k \in 1 .. (Len(trace) - 1) : TraceStep(trace[k], trace[k + 1])

\* a returned trace that moves from a node to the next one and that has a
\* step along the graph in one read row
C14_Witness ==
  \E trace \in ReturnedTraces :
    /\ \E k \in 1 .. (Len(trace) - 1) :
         graph.indexToNode[trace[k][1]] # graph.indexToNode[trace[k + 1][1]]
    /\ \E k \in 1 .. (Len(trace) - 1) :
         trace[k + 1][2] = trace[k][2] /\ trace[k + 1][1] # trace[k][1]

\* C15: the trace a full-band AlignOneWay that did not fail took from
\* getBacktrace, with the positions of the padding taken off its end, never goes
\* back in the read, starts in row 0 and ends in the row of the last character
\* of the read the caller gave.
C15_TraceOfTheWholeRead ==
  (/\ pc = "returned"
   /\ overload = "full"
   /\ backtraceresult # <<>>
   /\ ~alignmentResult.alignmentFailed)
    => LET trace == peel(backtraceresult.second, Len(readSequence))
       IN /\ trace # <<>>
          /\ \A k \in 1 .. (Len(trace) - 1) : trace[k][2] <= trace[k + 1][2]
          /\ trace[1][2] = 0
          /\ Back(trace)[2] = Len(readSequence) - 1

\* the running call is the full-band AlignOneWay of the read that spells the
\* whole linear chain
WholeLinearChain ==
  /\ graph = LinearGraph
  /\ overload = "full"
  /\ readSequence = chainPart(0, LinearNodes * LinearNodeLength)

\* C16: the full-band AlignOneWay of the read that spells the whole linear chain
\* returns, and its result is not failed, has score 0 and has one mapping for
\* each node of the chain, each with one edit whose from_length and to_length
\* are the length of the node.
C16_WholeChainAligned ==
  (WholeLinearChain /\ pc \in {"returned", "crashed"})
    => /\ pc = "returned"
       /\ ~alignmentResult.alignmentFailed
       /\ alignmentResult.alignment.score = 0
       /\ Len(alignmentResult.alignment.path) = LinearNodes
       /\ \A m \in 1 .. Len(alignmentResult.alignment.path) :
            LET mapping == alignmentResult.alignment.path[m]
            IN /\ Len(mapping.edit) = 1
               /\ mapping.edit[1].from_length = LinearNodeLength
               /\ mapping.edit[1].to_length = LinearNodeLength

\* the running call is the full-band AlignOneWay of the read that walks
\* CycleRounds times around the cycle
WalksAroundCycle ==
  /\ graph = CycleGraph
  /\ overload = "full"
  /\ readSequence = repeat(CycleNodeA \o CycleNodeB, CycleRounds)

\* C17: for the read that walks around the two-node cycle, every column has
\* minimum 0 once cutCycles, the in-order loop and the out-of-order loop have
\* run over it once, the sweep returns minimum 0 for every column, and
\* AlignOneWay returns a result of score 0 that is not failed.
C17_CycleWalkScoresZero ==
  WalksAroundCycle =>
    /\ pc = "columnEnd" => currentMinimumScore = 0 /\ BandMinimum = 0
    /\ pc = "sweepDone" =>
         \A s \in 1 .. Len(result.minScorePerWordSlice) : result.minScorePerWordSlice[s] = 0
    /\ pc \in {"returned", "crashed"} =>
         /\ pc = "returned"
         /\ ~alignmentResult.alignmentFailed
         /\ alignmentResult.alignment.score = 0

\* the alignment of the walks around the cycle has returned, after a sweep of
\* more than one column, with a path that comes back to the feedback node
C17_Witness ==
  /\ WalksAroundCycle
  /\ pc = "returned"
  /\ Len(result.minScorePerWordSlice) > 2
  /\ evaluated = Len(sequence) \div WordSize
  /\ alignmentResult.alignment.score = 0
  /\ \E m \in 3 .. Len(alignmentResult.alignment.path) :
       alignmentResult.alignment.path[m].position.node_id = graph.nodeIDs[graph.firstInOrder - 1]

\* the sum of the last minima of two sweeps
SumOfFinalMinima(first, second) ==
  Back(first.minScorePerWordSlice) + Back(second.minScorePerWordSlice)

\* a split alignment holds the scores and indices of these two sweeps
SplitHolds(split, forward, backward) ==
  /\ split.scoresForward = forward.minScorePerWordSlice
  /\ split.scoresBackward = backward.minScorePerWordSlice
  /\ split.minIndicesForward = forward.minScoreIndexPerWordSlice
  /\ split.minIndicesBackward = backward.minScoreIndexPerWordSlice

\* the sweep that runs or has returned is of the half of the read after the
\* seed position (forward) or of the reverse complement of the half before it,
\* and its first band holds the forward or the backward node of the seed
SweepOf(forwardHalf, forwardBand) ==
  LET position == seedHits[seedIndex + 1][2]
      node == graph.nodeLookup[seedHits[seedIndex + 1][1] * 2 + (IF forwardBand THEN 0 ELSE 1)]
      other == graph.nodeLookup[seedHits[seedIndex + 1][1] * 2 + (IF forwardBand THEN 1 ELSE 0)]
      half == IF forwardHalf
                THEN SubSeq(readSequence, position + 1, Len(readSequence))
                ELSE ReverseComplement(SubSeq(readSequence, 1, position))
  IN /\ SubSeq(sequence, 1, Len(half)) = half
     /\ Len(sequence) % WordSize = 0
     /\ Len(sequence) - Len(half) < WordSize
     /\ \A k \in (Len(half) + 1) .. Len(sequence) : sequence[k] = "N"
     /\ startBand[1][node]
     /\ ~startBand[1][other]

\* C18: getSplitAlignment sweeps the forward half on the forward band, the
\* backward half on the backward band, the forward half on the backward band
\* and the backward half on the forward band, and the split alignment
\* AlignOneWay takes from it holds the score and index vectors of the first
\* two sweeps when the sum of their last minima is smaller than that of the
\* last two, and those of the last two sweeps otherwise, also when the sums
\* are equal.
C18_SmallerOrientation ==
  [][/\ call' = "forwardSlice" => SweepOf(TRUE, TRUE)'
     /\ call' = "backwardSlice" => SweepOf(FALSE, FALSE)'
     /\ call' = "reverseForwardSlice" => SweepOf(TRUE, FALSE)'
     /\ call' = "reverseBackwardSlice" => SweepOf(FALSE, TRUE)'
     /\ (pc = "sweepDone" /\ call = "reverseBackwardSlice" /\ bestAlignment' # bestAlignment)
          => IF SumOfFinalMinima(slices[1], slices[2]) < SumOfFinalMinima(slices[3], result)
               THEN SplitHolds(bestAlignment', slices[1], slices[2])
               ELSE SplitHolds(bestAlignment', slices[3], result)]_vars

\* AlignOneWay took the split alignment of a seed hit whose two orientations
\* have the same sum, and the vectors of the two orientations differ
C18_Witness ==
  /\ pc = "estimate"
  /\ call = "backtraceresult"
  /\ Len(slices) = 3
  /\ SumOfFinalMinima(slices[1], slices[2]) = SumOfFinalMinima(slices[3], result)
  /\ SplitHolds(bestAlignment, slices[3], result)
  /\ ~SplitHolds(bestAlignment, slices[1], slices[2])

\* C19: for two half alignments that did not fail, mergeAlignments gives the
\* mappings of the first followed by those of the second, without the first
\* mapping of the second when it is on the node and strand of the last mapping
\* of the first: the path has size(first) + size(second) - 1 mappings in that
\* case and size(first) + size(second) otherwise, the node at the junction is
\* not in two mappings in a row, and the score is the sum of the two scores.
C19_JunctionMappedOnce ==
  (pc = "mergeAlignmentsDone" /\ ~firstHalf.alignmentFailed /\ ~secondHalf.alignmentFailed)
    => LET firstPath == firstHalf.alignment.path
           secondPath == secondHalf.alignment.path
           path == alignmentResult.alignment.path
           same == /\ Back(firstPath).position.node_id = secondPath[1].position.node_id
                   /\ Back(firstPath).position.is_reverse = secondPath[1].position.is_reverse
       IN /\ ~alignmentResult.alignmentFailed
          /\ Len(path) = Len(firstPath) + Len(secondPath) - (IF same THEN 1 ELSE 0)
          /\ SubSeq(path, 1, Len(firstPath)) = firstPath
          /\ Len(path) > Len(firstPath) =>
               path[Len(firstPath) + 1].position.node_id
                 # path[Len(firstPath)].position.node_id
          /\ alignmentResult.alignment.score
               = firstHalf.alignment.score + secondHalf.alignment.score

\* mergeAlignments has merged two halves that meet on the same node, the
\* second of which goes on to another node
C19_Witness ==
  /\ pc = "mergeAlignmentsDone"
  /\ ~firstHalf.alignmentFailed
  /\ ~secondHalf.alignmentFailed
  /\ Len(firstHalf.alignment.path) > 1
  /\ Len(secondHalf.alignment.path) > 1
  /\ Back(firstHalf.alignment.path).position = secondHalf.alignment.path[1].position
  /\ firstHalf.alignment.score + secondHalf.alignment.score > 0
  /\ Len(alignmentResult.alignment.path)
       = Len(firstHalf.alignment.path) + Len(secondHalf.alignment.path) - 1

\* the nodes of an order that come after the node calculateNode ran on last,
\* when that node is of the order, and all nodes of the order otherwise
NotYetCalculated(order) ==
  {n \in order : calculated = <<>> \/ calculated.node \notin order \/ n > calculated.node}

\* the step runs calculateNode on the smallest node of the order that is left,
\* and stays in the loop exactly when more nodes are left
CalculatesNextOf(order, loop) ==
  /\ calculated' # <<>>
  /\ calculated'.node \in NotYetCalculated(order)
  /\ \A n \in NotYetCalculated(order) : calculated'.node <= n
  /\ (pc' = loop) = (NotYetCalculated(order) # {calculated'.node})

\* C20: a column first runs cutCycles to its end, then calculateNode on every
\* node of bandOrder in ascending order, then on every node of
\* bandOrderOutOfOrder in ascending order, and then appends its minimum; the
\* next column begins only after that.
C20_EvaluationOrder ==
  [][/\ pc = "column" =>
          /\ pc' = "cutCycles"
          /\ evaluated' = evaluated + 1
          /\ Len(result.minScorePerWordSlice) = evaluated + 1
     /\ pc \in {"cutCycles", "cutRoot", "cutIndex"} =>
          /\ pc' \in {"cutCycles", "cutRoot", "cutIndex", "inOrder", "outOfOrder", "columnEnd"}
          /\ pc' \in {"inOrder", "outOfOrder", "columnEnd"} =>
               /\ graph.firstInOrder = 0 \/ (pc = "cutRoot" /\ pending = <<>>)
               /\ calculated' = <<>>
               /\ pc' = IF bandOrder # {} THEN "inOrder"
                        ELSE IF bandOrderOutOfOrder # {} THEN "outOfOrder" ELSE "columnEnd"
     /\ pc = "inOrder" =>
          /\ CalculatesNextOf(bandOrder, "inOrder")
          /\ pc' \in {"inOrder", IF bandOrderOutOfOrder # {} THEN "outOfOrder" ELSE "columnEnd"}
     /\ pc = "outOfOrder" =>
          /\ CalculatesNextOf(bandOrderOutOfOrder, "outOfOrder")
          /\ pc' \in {"outOfOrder", "columnEnd"}
     /\ pc \in {"cutCycles", "cutRoot", "cutIndex", "inOrder", "outOfOrder"} =>
          /\ evaluated' = evaluated
          /\ j' = j
          /\ result'.minScorePerWordSlice = result.minScorePerWordSlice
          /\ Len(result.minScorePerWordSlice) = evaluated
     /\ pc = "columnEnd" =>
          /\ pc' \in {"column", "sweepDone"}
          /\ Len(result'.minScorePerWordSlice) > evaluated
          /\ result'.minScorePerWordSlice[evaluated + 1] = currentMinimumScore]_vars

\* in a column cutCycles ran on, calculateNode has run on every node of
\* bandOrder, of which there are two, and on the first of two nodes of
\* bandOrderOutOfOrder
C20_Witness ==
  /\ pc = "outOfOrder"
  /\ graph.firstInOrder # 0
  /\ Cardinality(bandOrder) >= 2
  /\ calculated # <<>>
  /\ calculated.node \in bandOrderOutOfOrder
  /\ pending # <<>>

\* the nodes a band bitmap is true for
NodesOf(band) == {n \in DOMAIN band : band[n]}

\* C21: while a column is calculated, currentBand is true exactly for the nodes
\* of bandOrder and bandOrderOutOfOrder, which are the nodes currentSlice has an
\* entry for; previousBand is true exactly for the nodes previousSlice has an
\* entry for; bandOrderOutOfOrder holds the band nodes before firstInOrder and
\* bandOrder the others; and the bitmap a column after the start band takes as
\* its currentBand is false for every node.
C21_BandsAndSlices ==
  /\ pc \in {"cutCycles", "cutRoot", "cutIndex", "inOrder", "outOfOrder", "columnEnd"} =>
       /\ NodesOf(currentBand) = bandOrder \cup bandOrderOutOfOrder
       /\ DOMAIN currentSlice = bandOrder \cup bandOrderOutOfOrder
       /\ NodesOf(previousBand) = DOMAIN previousSlice
       /\ bandOrderOutOfOrder = {n \in NodesOf(currentBand) : n < graph.firstInOrder}
       /\ bandOrder = {n \in NodesOf(currentBand) : n >= graph.firstInOrder}
  /\ (pc = "column" /\ Len(startBand) <= j \div WordSize) => NodesOf(previousBand) = {}

\* a column after the start band is calculated, with nodes before firstInOrder
\* in its band, and its band is not the band of the column before
C21_Witness ==
  /\ pc = "inOrder"
  /\ evaluated >= 2
  /\ bandOrderOutOfOrder # {}
  /\ NodesOf(currentBand) # NodesOf(previousBand)
  /\ DOMAIN currentSlice # DOMAIN previousSlice

\* the cells calculateNode gave node n in the column that starts at row j are
\* under the scores of the path that inserts every row, and under the scores
\* the column before ends with when the node was in its band
CellsBounded(slice, n) ==
  \A w \in 1 .. Len(slice) :
     /\ slice[w].scoreBeforeStart <= j
     /\ slice[w].scoreEnd <= j + WordSize
     /\ previousBand[n] => slice[w].scoreBeforeStart <= previousSlice[n][w].scoreEnd

\* C22: after calculateNode for node i in the column that starts at row j, in
\* cutCycles and in the two loops of the column, every cell of the node has
\* scoreBeforeStart <= j and scoreEnd <= j + WordSize and, when the node was in
\* the previous band, scoreBeforeStart <= the scoreEnd of the same cell of the
\* previous column.
C22_CellsBounded ==
  [][/\ pc \in {"inOrder", "outOfOrder"} =>
          CellsBounded(currentSlice'[Head(pending)], Head(pending))
     /\ (pc = "cutIndex" /\ cutState'.index # cutState.index) =>
          LET cut == graph.cuts[cutState.i]
              node == cutNode(cut, cutState'.index + 1)
          IN ~cut.previousCut[cutState'.index + 2] => CellsBounded(currentSlice'[node], node)]_vars

\* calculateNode has run, in a column after the first, on a node of the
\* previous band, and gave it a cell that starts at the score of the row and a
\* cell that starts at the score the column before ends with
C22_Witness ==
  /\ pc \in {"inOrder", "outOfOrder", "columnEnd"}
  /\ calculated # <<>>
  /\ j > 0
  /\ previousBand[calculated.node]
  /\ \E w \in 1 .. Len(calculated.slice) :
        /\ calculated.slice[w].scoreBeforeStart = j
        /\ calculated.slice[w].scoreEnd = j + WordSize
  /\ \E w \in 1 .. Len(calculated.slice) :
        /\ calculated.slice[w].scoreBeforeStart = previousSlice[calculated.node][w].scoreEnd
        /\ calculated.slice[w].scoreBeforeStart < j

\* the step runs calculateNode on node n as a source: in a loop of the column
\* or in cutCycles on a node without in-neighbour in the two bands, or in
\* cutCycles on an entry of the cut that is forced to be a source
CalculatedAsSource(n) ==
  \/ /\ pc \in {"inOrder", "outOfOrder"}
     /\ n = Head(pending)
     /\ \A neighbor \in graph.inNeighbors[n] : ~currentBand[neighbor] /\ ~previousBand[neighbor]
  \/ /\ pc = "cutIndex"
     /\ cutState'.index # cutState.index
     /\ n = graph.cuts[cutState.i].nodes[cutState'.index + 2]
     /\ ~graph.cuts[cutState.i].previousCut[cutState'.index + 2]
     /\ \/ (cutState'.index + 1) \in cutState.source
        \/ \A neighbor \in graph.inNeighbors[n] : ~currentBand[neighbor] /\ ~previousBand[neighbor]

\* a column of WordSize insertions below the given score
InsertionsFrom(score) == WordSlice(AllOnes, AllZeros, score + WordSize, score)

\* C23 as stated: the first cell of a source node that was in the previous
\* band is the source slice from the scoreEnd of the last cell of the node in
\* the previous column, and that of a source node that was not is the source
\* slice from row j.
C23_SourceFromLastCell ==
  [][\A n \in DOMAIN currentSlice :
       CalculatedAsSource(n) =>
         currentSlice'[n][1] = IF previousBand[n]
                                 THEN InsertionsFrom(Back(previousSlice[n]).scoreEnd)
                                 ELSE InsertionsFrom(j)]_vars

\* C23, amended: the first cell of a source node that was in the previous band
\* is the source slice from the scoreEnd of the first cell of the node in the
\* previous column, and that of a source node that was not is the source slice
\* from row j.
C23_SourceFromFirstCell ==
  [][\A n \in DOMAIN currentSlice :
       CalculatedAsSource(n) =>
         currentSlice'[n][1] = IF previousBand[n]
                                 THEN InsertionsFrom(previousSlice[n][1].scoreEnd)
                                 ELSE InsertionsFrom(j)]_vars

\* calculateNode has run on a source node of the previous band whose first and
\* last cell of the previous column end with different scores
C23_Witness ==
  /\ pc \in {"inOrder", "outOfOrder", "columnEnd"}
  /\ calculated # <<>>
  /\ \A neighbor \in graph.inNeighbors[calculated.node] :
        ~currentBand[neighbor] /\ ~previousBand[neighbor]
  /\ previousBand[calculated.node]
  /\ previousSlice[calculated.node][1].scoreEnd # Back(previousSlice[calculated.node]).scoreEnd
  /\ calculated.slice[1] = InsertionsFrom(previousSlice[calculated.node][1].scoreEnd)

\* the equality mask line 1274 passes to getNextSlice for cell w (from 0) of
\* the node calculateNode ran on
PassedEq(w) == getEq(BA, BT, BC, BG, graph.nodeStart[calculated.node] + w)

\* what line 1274 gets from getNextSlice for cell w (from 1) of that node
UpdatedSlice(w) ==
  getNextSlice(PassedEq(w), calculated.slice[w], previousBand[calculated.node],
               j = 0 \/ nodeSequences(graph.nodeStart[calculated.node] + w) = sequence[j],
               IF previousBand[calculated.node] THEN previousSlice[calculated.node][w]
               ELSE calculated.slice[w])

\* C24: for every cell after the first of a node calculateNode ran on, when
\* firstZeroForced holds for the cell before it, the equality mask given to
\* getNextSlice has bit 0 clear and the slice getNextSlice gives is not below
\* the cell before it in its first row.
C24_FirstRowNotNegative ==
  calculated # <<>> =>
    \A w \in 1 .. (Len(calculated.slice) - 1) :
       firstZeroForced(previousBand, currentBand, calculated.node, calculated.slice[w],
                       PassedEq(w))
         => /\ 0 \notin PassedEq(w)
            /\ RowScore(UpdatedSlice(w), 0) >= RowScore(calculated.slice[w], 0)

\* C24, amended: the equality mask given to getNextSlice is the mask of the
\* character, whatever firstZeroForced gives, and the slice getNextSlice gives
\* is below the cell before it in its first row exactly when that cell goes up
\* in its first row and either the character matches the first row or the
\* score before the slice went down.
C24_FirstRowFollowsEq ==
  calculated # <<>> =>
    \A w \in 1 .. (Len(calculated.slice) - 1) :
       /\ RowScore(UpdatedSlice(w), 0) - RowScore(calculated.slice[w], 0) \in {-1, 0, 1}
       /\ RowScore(UpdatedSlice(w), 0) < RowScore(calculated.slice[w], 0)
            <=> /\ 0 \in calculated.slice[w].VP
                /\ \/ matches(sequence[j + 1], nodeSequences(graph.nodeStart[calculated.node] + w))
                   \/ UpdatedSlice(w).scoreBeforeStart < calculated.slice[w].scoreBeforeStart

\* calculateNode has run on a node that was not in the previous band, so that
\* firstZeroForced holds for its cells, and stored a cell that is below the
\* cell before it in its first row
C24_Witness ==
  /\ calculated # <<>>
  /\ ~previousBand[calculated.node]
  /\ \E w \in 1 .. (Len(calculated.slice) - 1) :
        /\ firstZeroForced(previousBand, currentBand, calculated.node, calculated.slice[w],
                           PassedEq(w))
        /\ 0 \in PassedEq(w)
        /\ calculated.slice[w + 1] = UpdatedSlice(w)
        /\ RowScore(calculated.slice[w + 1], 0) < RowScore(calculated.slice[w], 0)

\* the node the loops of lines 1595-1654 calculate next, and what calculateNode
\* gives for it
NextInBand == Head(pending)
NextNodeCalc ==
  calculateNode(NextInBand, j, sequence, BA, BT, BC, BG, currentSlice, previousSlice,
                currentBand, previousBand, FALSE)
\* the conditions of lines 1610-1615 for the node calculated next
OutNeighborFastPath ==
  /\ NextNodeCalc.minScore <= currentMinimumScore
  /\ NextNodeCalc.minScoreIndex = graph.nodeEnd[NextInBand] - 1
  /\ WordSize - 1 \in Back(NextNodeCalc.slice).VP
  /\ \E neighbor \in graph.outNeighbors[NextInBand] :
        nodeSequences(graph.nodeStart[neighbor]) = sequence[j + WordSize]

\* C25: when a node of the band takes the out-neighbour fast path (its minimum
\* is not above the column minimum and lies on its last character, the top VP
\* bit of that cell is set, and an out-neighbour starts with the read character
\* of row j+w-1), the column minimum becomes the node's minScore - 1 and
\* currentMinimumIndex is what lines 1600-1604 left: the node's minScoreIndex if
\* the node lowered the minimum, else the index before the node. The index
\* recorded at the end of the column, and kept to centre the next band, is that
\* currentMinimumIndex.
C25_FastPathKeepsIndex ==
  [][/\ (pc \in {"inOrder", "outOfOrder"} /\ OutNeighborFastPath)
        => /\ currentMinimumScore' = NextNodeCalc.minScore - 1
           /\ currentMinimumIndex' = IF NextNodeCalc.minScore < currentMinimumScore
                                       THEN NextNodeCalc.minScoreIndex
                                       ELSE currentMinimumIndex
     /\ pc = "columnEnd"
        => /\ result'.minScoreIndexPerWordSlice[Len(result.minScoreIndexPerWordSlice) + 1]
                = currentMinimumIndex
           /\ previousMinimumIndex' = currentMinimumIndex]_vars

\* a column whose minimum was lowered by the fast path of the node calculated
\* last: the minimum is one below the last cell of the node, the index is that
\* cell, and an out-neighbour with the read character exists
C25_Witness ==
  /\ calculated # <<>>
  /\ lowered[Len(lowered)]
  /\ currentMinimumIndex = graph.nodeEnd[calculated.node] - 1
  /\ currentMinimumScore = Back(calculated.slice).scoreEnd - 1
  /\ \E neighbor \in graph.outNeighbors[calculated.node] :
        /\ nodeSequences(graph.nodeStart[neighbor]) = sequence[j + WordSize]
        /\ currentMinimumIndex # graph.nodeStart[neighbor]

\* the step of lines 1402-1408, with which cutCycles returns
CutCyclesReturns == pc = "cutRoot" /\ pending = <<>> /\ pc' # "cutRoot"

\* C26: an end value stored for a cut is never stored again in the column; when
\* cutCycles returns, the last cell of every out-of-order band node other than
\* node 0 is the end value stored when the node's own cut was evaluated, and
\* every other cell of the column is what it was before the last loop.
C26_EndValuesRestored ==
  [][/\ (pc \in {"cutRoot", "cutIndex"} /\ pc' \in {"cutRoot", "cutIndex"})
        => \A i \in DOMAIN correctEndValues :
              /\ correctEndValues[i] # unsetEndValue => correctEndValues'[i] = correctEndValues[i]
              /\ correctEndValues'[i] # correctEndValues[i]
                   => /\ i = cutState.i
                      /\ correctEndValues'[i] = Back(currentSlice[i])
     /\ CutCyclesReturns
        => \A node \in DOMAIN currentSlice :
              /\ DOMAIN currentSlice'[node] = DOMAIN currentSlice[node]
              /\ \A w \in DOMAIN currentSlice[node] :
                    currentSlice'[node][w] =
                      IF node \in bandOrderOutOfOrder /\ node # 0 /\ w = Len(currentSlice[node])
                        THEN correctEndValues[node]
                        ELSE currentSlice[node][w]]_vars

\* every cut of the column was evaluated, and the last cell of an out-of-order
\* band node is no longer the end value stored for it: a later cut overwrote it
C26_Witness ==
  /\ pc = "cutRoot"
  /\ pending = <<>>
  /\ \E i \in bandOrderOutOfOrder \ {0} :
        /\ correctEndValues[i] # unsetEndValue
        /\ Back(currentSlice[i]) # correctEndValues[i]

\* The sides of the nodes, a side being <<node, end>>, and the distances
\* between them: `less` below the length of the node from one side of a node
\* to its other side, and 1 along an edge, from the end of a node to the start
\* of an out-neighbour and from the start of a node to the end of an
\* in-neighbour.
SideCost(from, to, less) ==
  IF from[1] = to[1] /\ from[2] # to[2]
    THEN graph.nodeEnd[from[1]] - graph.nodeStart[from[1]] - less
  ELSE IF from[2] /\ ~to[2] /\ to[1] \in graph.outNeighbors[from[1]] THEN 1
  ELSE IF ~from[2] /\ to[2] /\ to[1] \in graph.inNeighbors[from[1]] THEN 1
  ELSE -1

\* the pairs <<side, distance>> with distance <= width that a walk from one of
\* the pairs of `reached` gives
RECURSIVE SidesWithin(_, _, _)
SidesWithin(reached, width, less) ==
  LET sides == (DOMAIN graph.nodeStart) \X BOOLEAN
      more == UNION {{<<to, r[2] + SideCost(r[1], to, less)>> :
                         to \in {t \in sides : SideCost(r[1], t, less) >= 0}} :
                      r \in reached}
      next == reached \cup {m \in more : m[2] <= width}
  IN IF next = reached THEN reached ELSE SidesWithin(next, width, less)

\* the nodes of the positions, and the nodes with a side within width of one of
\* the positions
NodesWithin(positions, width, less) ==
  LET first == {<< <<graph.indexToNode[q], FALSE>>, q - graph.nodeStart[graph.indexToNode[q]]>> :
                  q \in positions}
               \cup {<< <<graph.indexToNode[q], TRUE>>,
                        graph.nodeEnd[graph.indexToNode[q]] - q - 1>> : q \in positions}
  IN {graph.indexToNode[q] : q \in positions}
     \cup {r[1][1] : r \in SidesWithin({f \in first : f[2] <= width}, width, less)}

\* the previous minimum position and its forward projection by w characters
ProjectedPositions == {previousMinimumIndex} \cup ProjectForward({previousMinimumIndex}, WordSize)

\* a column whose band projectForwardAndExpandBand has just built
BandProjected ==
  /\ pc = "cutCycles"
  /\ Len(startBand) <= j \div WordSize

\* C27: the band built by projectForwardAndExpandBand is the nodes of the
\* previous minimum position and of its forward projection by w characters, and
\* every node with its start or its end within dynamicWidth of one of those
\* positions, the distance being 1 along an edge, in both directions, and the
\* length of the node from one side of a node to the other.
C27_BandByNodeLength ==
  BandProjected =>
    bandOrder \cup bandOrderOutOfOrder = NodesWithin(ProjectedPositions, dynamicWidth, 0)

\* C27, amended: the same, the distance from one side of a node to the other
\* being the length of the node minus one.
C27_BandByNodeSteps ==
  BandProjected =>
    /\ bandOrder \cup bandOrderOutOfOrder = NodesWithin(ProjectedPositions, dynamicWidth, 1)
    /\ \A n \in DOMAIN currentBand :
          currentBand[n] <=> n \in NodesWithin(ProjectedPositions, dynamicWidth, 1)

\* a band built by projectForwardAndExpandBand that holds a node which is within
\* dynamicWidth only because a whole node is crossed at its length minus one
C27_Witness ==
  /\ BandProjected
  /\ \E n \in bandOrder \cup bandOrderOutOfOrder :
        n \notin NodesWithin(ProjectedPositions, dynamicWidth, 0)

\* C28: backtraceInner never finds the queue of the current distance and the
\* queue of the next distance both empty, the distance never goes above
\* scoreAtEnd, and the loop ends on a cell of read row 0.
C28_BacktraceReachesRowZero ==
  /\ failedAssert \cap {333, 337} = {}
  /\ (pc = "backtraceDone" /\ visitedExpandos # <<>>)
       => /\ currentDistance <= scoreAtEnd
          /\ Back(visitedExpandos).position[2] = 0

(***************************************************************************)
(* The edit graph backtraceInner walks: from the cell of graph position w   *)
(* and read row r >= 1 to the cell below it, to the cells before it in the  *)
(* graph in the same row, and to the cells before it in the graph one row   *)
(* below.                                                                   *)
(***************************************************************************)
\* the graph positions before position w
PositionsBefore(w) ==
  IF w = graph.nodeStart[graph.indexToNode[w]]
    THEN {graph.nodeEnd[neighbor] - 1 : neighbor \in graph.inNeighbors[graph.indexToNode[w]]}
    ELSE {w - 1}

\* the graph positions after position u
PositionsAfter(u) ==
  IF u + 1 < graph.nodeEnd[graph.indexToNode[u]] THEN {u + 1}
  ELSE {graph.nodeStart[neighbor] : neighbor \in graph.outNeighbors[graph.indexToNode[u]]}

\* the cost of the diagonal step from position w in read row r
DiagonalCost(w, r) == IF newseq[r] = "N" \/ nodeSequences(w) = newseq[r] THEN 0 ELSE 1

\* the cost of the step from cell `from` to cell `to`, -1 if there is none
EditCost(from, to) ==
  IF from[2] = 0 THEN -1
  ELSE IF to[1] = from[1] /\ to[2] = from[2] - 1 THEN 1
  ELSE IF to[1] \in PositionsBefore(from[1]) /\ to[2] = from[2] THEN 1
  ELSE IF to[1] \in PositionsBefore(from[1]) /\ to[2] = from[2] - 1
    THEN DiagonalCost(from[1], from[2])
  ELSE -1

\* the bound of line 351 on the distance of a cell of read row r
PruneBound(r) == scoreAtEnd - partials[(r - 1) \div WordSize + 1]

SmallestOf(S) == CHOOSE x \in S : \A y \in S : x <= y

\* The smallest costs of the cells of one read row, as a function of the graph
\* position, ScoreMax for a cell no path reaches; only a cell within its bound
\* is walked on from.
\* the costs of row r that the steps from row r + 1 give
CostsFromRowAbove(above, r) ==
  [u \in DOMAIN above |->
     SmallestOf({ScoreMax}
                \cup {above[w] + 1 : w \in {x \in {u} : above[x] <= PruneBound(r + 1)}}
                \cup {above[w] + DiagonalCost(w, r + 1) :
                        w \in {x \in PositionsAfter(u) : above[x] <= PruneBound(r + 1)}})]

\* the costs of row r with the steps along the row
RECURSIVE CostsAlongRow(_, _)
CostsAlongRow(costs, r) ==
  LET next == [u \in DOMAIN costs |->
                 SmallestOf({costs[u]}
                            \cup {costs[w] + 1 :
                                    w \in {x \in PositionsAfter(u) : costs[x] <= PruneBound(r)}})]
  IN IF next = costs THEN costs ELSE CostsAlongRow(next, r)

\* the costs of row 0, given the costs of row r
RECURSIVE CostsOfRowZero(_, _)
CostsOfRowZero(costs, r) ==
  IF r = 0 THEN costs
  ELSE IF r = 1 THEN CostsFromRowAbove(costs, 0)
  ELSE The({CostsOfRowZero(below, r - 1) :
              below \in {CostsAlongRow(CostsFromRowAbove(costs, r - 1), r - 1)}})

\* the smallest cost of a path from the cell `from` to a cell of read row 0
SmallestEditCost(from) ==
  LET first == [u \in 0 .. (Len(graph.nodeSequences) - 1) |->
                  IF u = from[1] THEN 0 ELSE ScoreMax]
  IN The({SmallestOf({last[u] : u \in DOMAIN last}) :
            last \in {The({CostsOfRowZero(top, from[2]) :
                             top \in {CostsAlongRow(first, from[2])}})}})

\* the cost of the path that is the returned trace, read from its end, after
\* the cell `from`; -1 if a step of it is no step of the edit graph or starts
\* from a cell beyond its bound
RECURSIVE PathCost(_, _, _)
PathCost(from, trace, cost) ==
  IF trace = <<>> THEN cost
  ELSE LET to == trace[Len(trace)]
       IN IF EditCost(from, to) < 0 \/ cost > PruneBound(from[2]) THEN -1
          ELSE PathCost(to, SubSeq(trace, 1, Len(trace) - 1), cost + EditCost(from, to))

\* what the last backtrace gave, whether backtraceInner has returned it, and the
\* cell backtraceInner started from
LastBacktrace == IF call = "reverseBacktraceResult" THEN reverseBacktraceResult ELSE backtraceresult
BacktraceReturned ==
  /\ pc = "backtraceDone"
  /\ visitedExpandos # <<>>
  /\ LastBacktrace # <<>>
  /\ LastBacktrace.second # <<>>
BacktraceStart == visitedExpandos[1].position

\* C29: the distance of backtraceInner never goes down while it pops cells; the
\* distance it returns is the smallest edit cost (0 for a match or a read N, 1
\* for a substitution, an insertion and a deletion) of the paths from
\* endPosition to a cell of read row 0 that walk on only from cells within the
\* bound of their slice, and the trace it returns is such a path of that cost,
\* ending in read row 0.
C29_SmallestEditCost ==
  /\ [](BacktraceReturned
          => /\ LastBacktrace.first = currentDistance
             /\ currentDistance = SmallestEditCost(BacktraceStart)
             /\ PathCost(BacktraceStart, LastBacktrace.second, 0) = currentDistance
             /\ LastBacktrace.second[1][2] = 0)
  /\ [][pc = "backtrace" => currentDistance' >= currentDistance]_vars

\* backtraceInner has returned a distance above 0 and a trace through more
\* than one slice
C29_Witness ==
  /\ BacktraceReturned
  /\ currentDistance > 0
  /\ Len(partials) > 2
  /\ Len(LastBacktrace.second) > WordSize

\* the labels the estimator gives the slices of the running call
CorrectLabels == estimateCorrectAlignmentViterbi(estimateArguments.minScorePerWordSlice)

\* the runs <<first, last>> of labels that are all correct, counted from 1
CorrectRuns(labels) ==
  {run \in (DOMAIN labels) \X (DOMAIN labels) :
     run[1] <= run[2] /\ \A k \in run[1] .. run[2] : labels[k]}

\* the longest of them
LongestCorrectRuns(labels) ==
  {run \in CorrectRuns(labels) :
     \A other \in CorrectRuns(labels) : other[2] - other[1] <= run[2] - run[1]}

\* C30: when the estimator labels at least one slice correct,
\* estimateCorrectnessAndBacktraceBiggestPart hands to the backtrace a longest
\* run of correct slices, also when it is one slice long: the read rows of the
\* run, the minima from the slice before the run to its last slice, and the end
\* position made of the minimum index of the last slice of the run and of the
\* number of rows of the run.
C30_LongestRunBacktraced ==
  [][(/\ pc = "estimate"
      /\ estimable(estimateArguments.minScorePerWordSlice)
      /\ \E k \in DOMAIN CorrectLabels : CorrectLabels[k])
       => \E run \in LongestCorrectRuns(CorrectLabels) :
             /\ pc' = "backtrace"
             /\ newseq' = SubSeq(estimateArguments.sequence,
                                 (run[1] - 1) * WordSize + 1, run[2] * WordSize)
             /\ partials' = SubSeq(estimateArguments.minScorePerWordSlice, run[1], run[2] + 1)
             /\ currentDistanceQueue' =
                  <<ExpandoCell(estimateArguments.minScoreIndexPerWordSlice[run[2] + 1],
                                (run[2] - run[1] + 1) * WordSize, 0)>>]_vars
=========================================================================
